---- MODULE Spec2Model ----
(***************************************************************************)
(* A model of the playwright-automation-framework core:                    *)
(*   - WaitHelpers.waitForTableStability (MutationObserver + two timers),  *)
(*   - WaitHelpers.waitForStableCount (polling loop),                      *)
(*   - generate-report.ts: grouping of the execution history into runs and *)
(*     the per-run wall-clock pass.                                        *)
(* Time is in milliseconds.  A timer fires at its due time: the clock does *)
(* not pass a due timer, and a mutation callback (a microtask) runs before *)
(* any timer task.                                                         *)
(***************************************************************************)
EXTENDS Integers, Sequences, FiniteSets, TLC

(***************************************************************************)
(* Bounds of the model.                                                    *)
(***************************************************************************)
\* DOM mutations per call of waitForTableStability
MaxMutations == 3
\* changes of the element count per call of waitForStableCount
MaxCountChanges == 2
\* records in the execution history file
MaxRecords == 3
\* tests that end before the explored report is generated
MaxTests == 2
\* how many image timers of the explorer may be pending
MaxTimers == 1

\* the value of an option the caller left out (no number of ms is negative)
Undefined == 0 - 1

(***************************************************************************)
(* src/types/generics.ts: DEFAULT_WAIT_OPTIONS                             *)
(***************************************************************************)
DefaultTimeout == 5000
DefaultStabilityThreshold == 100
DefaultPollInterval == 50

\* `const { x = DEFAULT } = options`: the default replaces undefined only
OrDefault(v, d) == IF v = Undefined THEN d ELSE v

Min(S) == CHOOSE x \in S : \A y \in S : x <= y
Max(S) == CHOOSE x \in S : \A y \in S : x >= y

(***************************************************************************)
(* waitForTableStability                                                   *)
(***************************************************************************)
VARIABLES
    pc,              \* "idle" before the call, "waiting" once the executor ran
    now,             \* the page's clock, ms since the call
    threshold,       \* the evaluate argument `threshold`
    maxTimeout,      \* the evaluate argument `maxTimeout`
    observing,       \* the MutationObserver is attached to the element
    pendingRecord,   \* a mutation record is queued: the callback is due
    timers,          \* the page's pending timers: [id, ms, due, cb]
    nextTimerId,     \* the id setTimeout returns next
    stabilityTimer,  \* the closure variable stabilityTimer (a timer id)
    timeoutTimer,    \* the closure variable timeoutTimer (a timer id)
    promise,         \* "pending", "fulfilled" or "rejected"
    resolveCalls,    \* calls of resolve()
    rejectCalls,     \* calls of reject()
    error,           \* the rejection reason
    settledAt,       \* the time the promise was settled
    mutations,       \* DOM mutations so far
    lastMutation,    \* the time of the last mutation the observer was attached for
    quiet            \* a full threshold without mutation has elapsed

waiterVars == <<pc, now, threshold, maxTimeout, observing, pendingRecord, timers,
                nextTimerId, stabilityTimer, timeoutTimer, promise, resolveCalls,
                rejectCalls, error, settledAt, mutations, lastMutation, quiet>>

VARIABLES
    scPc,            \* "idle", "first", "loop", "wait", "count", "returned", "threw"
    scNow,           \* Date.now(), ms since the call
    count,           \* the number of elements the locator matches now
    countChanges,    \* changes of that number so far
    scTimeout,       \* the option timeout
    scThreshold,     \* the option stabilityThreshold
    scPollInterval,  \* the option pollInterval
    startTime,       \* the local startTime
    lastCount,       \* the local lastCount
    stableStart,     \* the local stableStart
    scResult,        \* the value returned
    scVia,           \* the return statement taken: "stable" or "timeout"
    obsCount,        \* the count the last poll observed
    obsSince         \* the time of the first poll of the current run of equal counts

countVars == <<scPc, scNow, count, countChanges, scTimeout, scThreshold,
               scPollInterval, startTime, lastCount, stableStart, scResult, scVia,
               obsCount, obsSince>>

VARIABLES
    historyFile,     \* output/execution-history.json: [exists, parses, records]
    history,         \* generateReport's parsed array `history`
    runs,            \* generateReport's `runs`, in the key order of the object
    reportLog,       \* what the last generateReport logged: "", "warn", "error", "generated"
    sortedRuns,      \* generateReport's `sortedRuns`
    stats,           \* generateReport's total, passed, failed and skipped
    browserStats,    \* generateReport's `browserStats`
    executionMetrics,\* generateReport's `executionMetrics`
    speedup,         \* the Performance Gain figure of the dashboard
    preloaded,       \* records the store held before the first append of the session
    reportFile,      \* output/dashboard.html: [exists, historyData, runGroups, currentRun]
    reporterLog      \* what the last appendToHistory logged: "" or "read-error"

reportVars == <<sortedRuns, stats, browserStats, executionMetrics, speedup>>

aggVars == <<historyFile, history, runs, reportLog, reportVars, preloaded, reportFile,
             reporterLog>>

VARIABLES
    writers,         \* each reporter process inside appendToHistory: [pc, read, pending]
    completed        \* how many appendToHistory calls of each process have returned

writerVars == <<writers, completed>>

VARIABLES
    page             \* the report open in a browser (FreshPage gives its fields)

uiVars == <<page>>

VARIABLES
    retry            \* one call of WaitHelpers.withRetry (RetryIdle gives its fields)

retryVars == <<retry>>

\* the variables of the components that follow the aggregator
laterVars == <<writerVars, uiVars, retryVars>>

\* options the model calls waitForTableStability with (TablePage passes
\* {stabilityThreshold: 100, timeout: 3000}; {} takes both defaults)
TimeoutOptions == {Undefined, 100, 250, 1000}
ThresholdOptions == {Undefined, 300}
\* how far the clock may move in one step (never past a due timer)
Steps == {30, 100, 920}

NoTimer == 0

\* setTimeout(cb, ms) at time t, returning id
SetTimeout(ts, id, ms, t, cb) == ts \cup {[id |-> id, ms |-> ms, due |-> t + ms, cb |-> cb]}

\* a plausible slip: clearTimeout that cancels nothing
ClearTimeoutNoop(ts, id) == ts

\* clearTimeout(id): no effect when the timer fired already or id is unset
ClearTimeout(ts, id) == {t \in ts : t.id # id}

\* a plausible slip: the observer is left attached
DisconnectLeak == UNCHANGED <<observing, pendingRecord>>

\* observer.disconnect(): detaches and drops the queued records
Disconnect == observing' = FALSE /\ pendingRecord' = FALSE

\* resolve(): settles a pending promise, no effect on a settled one
Resolve ==
    /\ resolveCalls' = resolveCalls + 1
    /\ promise' = IF promise = "pending" THEN "fulfilled" ELSE promise
    /\ settledAt' = IF promise = "pending" THEN now ELSE settledAt
    /\ UNCHANGED <<rejectCalls, error>>

\* reject(new Error(`Table did not stabilize within ${maxTimeout}ms`))
Reject ==
    /\ rejectCalls' = rejectCalls + 1
    /\ promise' = IF promise = "pending" THEN "rejected" ELSE promise
    /\ settledAt' = IF promise = "pending" THEN now ELSE settledAt
    /\ error' = IF promise = "pending"
                THEN <<"Table did not stabilize within ", maxTimeout, "ms">>
                ELSE error
    /\ UNCHANGED resolveCalls

\* the call: the promise executor runs to its end in one task
WaitForTableStability(options) ==
    /\ pc = "idle"
    /\ pc' = "waiting"
    /\ threshold' = OrDefault(options.stabilityThreshold, DefaultStabilityThreshold)
    /\ maxTimeout' = OrDefault(options.timeout, DefaultTimeout)
    /\ observing' = TRUE
    /\ stabilityTimer' = nextTimerId
    /\ timeoutTimer' = nextTimerId + 1
    /\ timers' = SetTimeout(SetTimeout(timers, nextTimerId, threshold', now, "stability"),
                            nextTimerId + 1, maxTimeout', now, "timeout")
    /\ nextTimerId' = nextTimerId + 2
    /\ lastMutation' = now
    /\ UNCHANGED <<now, pendingRecord, promise, resolveCalls, rejectCalls, error,
                   settledAt, mutations, quiet>>
    /\ UNCHANGED <<countVars, aggVars, laterVars>>

\* the page mutates the observed subtree; an attached observer queues a record
Mutate ==
    /\ pc = "waiting"
    /\ mutations < MaxMutations
    /\ ~pendingRecord
    /\ mutations' = mutations + 1
    /\ pendingRecord' = observing
    /\ lastMutation' = IF observing THEN now ELSE lastMutation
    /\ UNCHANGED <<pc, now, threshold, maxTimeout, observing, timers, nextTimerId,
                   stabilityTimer, timeoutTimer, promise, resolveCalls, rejectCalls,
                   error, settledAt, quiet>>
    /\ UNCHANGED <<countVars, aggVars, laterVars>>

\* a plausible slip: the callback sets a new timer and leaves the old one
ObserverCallbackNoClear ==
    /\ pendingRecord
    /\ pendingRecord' = FALSE
    /\ timers' = SetTimeout(timers, nextTimerId, threshold, now, "stability")
    /\ stabilityTimer' = nextTimerId
    /\ nextTimerId' = nextTimerId + 1
    /\ UNCHANGED <<pc, now, threshold, maxTimeout, observing, timeoutTimer, promise,
                   resolveCalls, rejectCalls, error, settledAt, mutations,
                   lastMutation, quiet>>
    /\ UNCHANGED <<countVars, aggVars, laterVars>>

\* the MutationObserver callback: restart the stability timer
ObserverCallback ==
    /\ pendingRecord
    /\ pendingRecord' = FALSE
    /\ timers' = SetTimeout(ClearTimeout(timers, stabilityTimer), nextTimerId,
                            threshold, now, "stability")
    /\ stabilityTimer' = nextTimerId
    /\ nextTimerId' = nextTimerId + 1
    /\ UNCHANGED <<pc, now, threshold, maxTimeout, observing, timeoutTimer, promise,
                   resolveCalls, rejectCalls, error, settledAt, mutations,
                   lastMutation, quiet>>
    /\ UNCHANGED <<countVars, aggVars, laterVars>>

\* a timer may run: it is due, no microtask is queued, and no timer set
\* earlier with an equal or shorter delay is still pending (HTML timer order)
Runnable(t) ==
    /\ t \in timers
    /\ t.due <= now
    /\ ~pendingRecord
    /\ \A u \in timers : ~(u.id < t.id /\ u.ms <= t.ms)

\* the stability timer's callback
StabilityFires ==
    \E t \in timers :
        /\ Runnable(t)
        /\ t.cb = "stability"
        /\ Disconnect
        /\ timers' = ClearTimeout(timers \ {t}, timeoutTimer)
        /\ Resolve
        /\ UNCHANGED <<pc, now, threshold, maxTimeout, nextTimerId, stabilityTimer,
                       timeoutTimer, mutations, lastMutation, quiet>>
        /\ UNCHANGED <<countVars, aggVars, laterVars>>

\* a plausible slip: the timeout taken for stability
TimeoutFiresResolves ==
    \E t \in timers :
        /\ Runnable(t)
        /\ t.cb = "timeout"
        /\ Disconnect
        /\ timers' = ClearTimeout(timers \ {t}, stabilityTimer)
        /\ Resolve
        /\ UNCHANGED <<pc, now, threshold, maxTimeout, nextTimerId, stabilityTimer,
                       timeoutTimer, mutations, lastMutation, quiet>>
        /\ UNCHANGED <<countVars, aggVars, laterVars>>

\* the timeout guard's callback
TimeoutFires ==
    \E t \in timers :
        /\ Runnable(t)
        /\ t.cb = "timeout"
        /\ Disconnect
        /\ timers' = ClearTimeout(timers \ {t}, stabilityTimer)
        /\ Reject
        /\ UNCHANGED <<pc, now, threshold, maxTimeout, nextTimerId, stabilityTimer,
                       timeoutTimer, mutations, lastMutation, quiet>>
        /\ UNCHANGED <<countVars, aggVars, laterVars>>

\* time passes, up to the next due timer
Advance ==
    /\ pc = "waiting"
    /\ ~pendingRecord
    /\ timers # {}
    /\ \A t \in timers : t.due > now
    /\ \E d \in Steps :
        /\ now' = Min({now + d} \cup {t.due : t \in timers})
        /\ quiet' = (quiet \/ now' - lastMutation >= threshold)
    /\ UNCHANGED <<pc, threshold, maxTimeout, observing, pendingRecord, timers,
                   nextTimerId, stabilityTimer, timeoutTimer, promise, resolveCalls,
                   rejectCalls, error, settledAt, mutations, lastMutation>>
    /\ UNCHANGED <<countVars, aggVars, laterVars>>

WaiterInit ==
    /\ pc = "idle"
    /\ now = 0
    /\ threshold = 0
    /\ maxTimeout = 0
    /\ observing = FALSE
    /\ pendingRecord = FALSE
    /\ timers = {}
    /\ nextTimerId = 1
    /\ stabilityTimer = NoTimer
    /\ timeoutTimer = NoTimer
    /\ promise = "pending"
    /\ resolveCalls = 0
    /\ rejectCalls = 0
    /\ error = <<>>
    /\ settledAt = 0
    /\ mutations = 0
    /\ lastMutation = 0
    /\ quiet = FALSE

WaiterNext ==
    \/ \E to \in TimeoutOptions, th \in ThresholdOptions :
           WaitForTableStability([timeout |-> to, stabilityThreshold |-> th])
    \/ Mutate
    \/ ObserverCallback
    \/ StabilityFires
    \/ TimeoutFires
    \/ Advance

(***************************************************************************)
(* waitForStableCount                                                      *)
(***************************************************************************)
Counts == {4, 5}
ScTimeoutOptions == {200, 300}
ScThresholdOptions == {Undefined, 150}
ScPollOptions == {Undefined, 80}
\* what an await takes beyond the time asked for
Latencies == {0, 20}

\* lines 92-99: the options and startTime
WaitForStableCount(options) ==
    /\ scPc = "idle"
    /\ scPc' = "first"
    /\ scTimeout' = OrDefault(options.timeout, DefaultTimeout)
    /\ scThreshold' = OrDefault(options.stabilityThreshold, DefaultStabilityThreshold)
    /\ scPollInterval' = OrDefault(options.pollInterval, DefaultPollInterval)
    /\ startTime' = scNow
    /\ UNCHANGED <<scNow, count, countChanges, lastCount, stableStart, scResult,
                   scVia, obsCount, obsSince>>
    /\ UNCHANGED <<waiterVars, aggVars, laterVars>>

\* lines 100-101: the first count and stableStart
FirstCount ==
    /\ scPc = "first"
    /\ \E lat \in Latencies : scNow' = scNow + lat
    /\ lastCount' = count
    /\ stableStart' = scNow'
    /\ obsCount' = count
    /\ obsSince' = scNow'
    /\ scPc' = "loop"
    /\ UNCHANGED <<count, countChanges, scTimeout, scThreshold, scPollInterval,
                   startTime, scResult, scVia>>
    /\ UNCHANGED <<waiterVars, aggVars, laterVars>>

\* line 103, and lines 115-116 when the loop ends
LoopTest ==
    /\ scPc = "loop"
    /\ IF scNow - startTime < scTimeout
       THEN /\ scPc' = "wait"
            /\ UNCHANGED <<scResult, scVia>>
       ELSE /\ scPc' = "returned"
            /\ scResult' = lastCount
            /\ scVia' = "timeout"
    /\ UNCHANGED <<scNow, count, countChanges, scTimeout, scThreshold, scPollInterval,
                   startTime, lastCount, stableStart, obsCount, obsSince>>
    /\ UNCHANGED <<waiterVars, aggVars, laterVars>>

\* line 104: await page.waitForTimeout(pollInterval)
PollWait ==
    /\ scPc = "wait"
    /\ \E lat \in Latencies : scNow' = scNow + scPollInterval + lat
    /\ scPc' = "count"
    /\ UNCHANGED <<count, countChanges, scTimeout, scThreshold, scPollInterval,
                   startTime, lastCount, stableStart, scResult, scVia, obsCount,
                   obsSince>>
    /\ UNCHANGED <<waiterVars, aggVars, laterVars>>

\* a plausible slip: a changed count does not restart the stable period
PollCountNoRestart ==
    /\ scPc = "count"
    /\ \E lat \in Latencies : scNow' = scNow + lat
    /\ obsCount' = count
    /\ obsSince' = IF count # obsCount THEN scNow' ELSE obsSince
    /\ IF count # lastCount
       THEN /\ lastCount' = count
            /\ scPc' = "loop"
            /\ UNCHANGED <<stableStart, scResult, scVia>>
       ELSE IF scNow' - stableStart >= scThreshold
            THEN /\ scPc' = "returned"
                 /\ scResult' = count
                 /\ scVia' = "stable"
                 /\ UNCHANGED <<lastCount, stableStart>>
            ELSE /\ scPc' = "loop"
                 /\ UNCHANGED <<lastCount, stableStart, scResult, scVia>>
    /\ UNCHANGED <<count, countChanges, scTimeout, scThreshold, scPollInterval,
                   startTime>>
    /\ UNCHANGED <<waiterVars, aggVars, laterVars>>

\* lines 105-112: the poll's count and the two branches
PollCount ==
    /\ scPc = "count"
    /\ \E lat \in Latencies : scNow' = scNow + lat
    /\ obsCount' = count
    /\ obsSince' = IF count # obsCount THEN scNow' ELSE obsSince
    /\ IF count # lastCount
       THEN /\ lastCount' = count
            /\ stableStart' = scNow'
            /\ scPc' = "loop"
            /\ UNCHANGED <<scResult, scVia>>
       ELSE IF scNow' - stableStart >= scThreshold
            THEN /\ scPc' = "returned"
                 /\ scResult' = count
                 /\ scVia' = "stable"
                 /\ UNCHANGED <<lastCount, stableStart>>
            ELSE /\ scPc' = "loop"
                 /\ UNCHANGED <<lastCount, stableStart, scResult, scVia>>
    /\ UNCHANGED <<count, countChanges, scTimeout, scThreshold, scPollInterval,
                   startTime>>
    /\ UNCHANGED <<waiterVars, aggVars, laterVars>>

\* the page adds or removes matching elements, at any time
ChangeCount ==
    /\ scPc \notin {"idle", "returned", "threw"}
    /\ countChanges < MaxCountChanges
    /\ countChanges' = countChanges + 1
    /\ \E c \in Counts \ {count} : count' = c
    /\ UNCHANGED <<scPc, scNow, scTimeout, scThreshold, scPollInterval, startTime,
                   lastCount, stableStart, scResult, scVia, obsCount, obsSince>>
    /\ UNCHANGED <<waiterVars, aggVars, laterVars>>

CountInit ==
    /\ scPc = "idle"
    /\ scNow = 0
    /\ count = 5
    /\ countChanges = 0
    /\ scTimeout = 0
    /\ scThreshold = 0
    /\ scPollInterval = 0
    /\ startTime = 0
    /\ lastCount = 0
    /\ stableStart = 0
    /\ scResult = Undefined
    /\ scVia = ""
    /\ obsCount = 0
    /\ obsSince = 0

CountNext ==
    \/ \E to \in ScTimeoutOptions, th \in ScThresholdOptions, pi \in ScPollOptions :
           WaitForStableCount([timeout |-> to, stabilityThreshold |-> th,
                               pollInterval |-> pi])
    \/ FirstCount
    \/ LoopTest
    \/ PollWait
    \/ PollCount
    \/ ChangeCount

(***************************************************************************)
(* generate-report.ts: the execution history and its grouping into runs    *)
(***************************************************************************)
\* a field the JSON record does not have
NoField == "<undefined>"

\* a || b on strings: undefined and "" are falsy
JsOr(a, b) == IF a \in {NoField, ""} THEN b ELSE a

\* the number NaN (no number of the model is that small)
NaN == 0 - 2147483647
IsNaN(x) == x = NaN
JsAdd(a, b) == IF IsNaN(a) \/ IsNaN(b) THEN NaN ELSE a + b
JsSub(a, b) == IF IsNaN(a) \/ IsNaN(b) THEN NaN ELSE a - b

\* Math.min(...xs), Math.max(...xs) of a non-empty array: NaN if any is NaN
MathMin(xs) ==
    IF \E i \in DOMAIN xs : IsNaN(xs[i]) THEN NaN ELSE Min({xs[i] : i \in DOMAIN xs})
MathMax(xs) ==
    IF \E i \in DOMAIN xs : IsNaN(xs[i]) THEN NaN ELSE Max({xs[i] : i \in DOMAIN xs})

\* the timestamps of the model's records
T0s == "1970-01-01T00:00:00.000Z"
T1s == "1970-01-01T00:00:01.000Z"
T2s == "1970-01-01T00:00:02.000Z"
TBad == "not-a-date"

\* new Date(timestamp).getTime(): ms since the epoch, NaN when it does not parse
DateGetTime(ts) ==
    CASE ts = T0s -> 0
      [] ts = T1s -> 1000
      [] ts = T2s -> 2000
      [] OTHER -> NaN

\* strings that are searched are sequences of characters
StrParallel == <<"p", "a", "r", "a", "l", "l", "e", "l">>
StrSequential == <<"s", "e", "q", "u", "e", "n", "t", "i", "a", "l">>
StrTest == <<"t", "e", "s", "t">>
StrNpx == <<"n", "p", "x">>
StrUnknown == <<"u", "n", "k", "n", "o", "w", "n">>
StrParallelTests == StrParallel \o <<"-", "t", "e", "s", "t", "s">>
StrSequentialRun == StrSequential \o <<"-", "r", "u", "n">>
StrEmpty == <<>>

\* s.includes(sub)
Includes(s, sub) ==
    \E k \in 0..(Len(s) - Len(sub)) : SubSeq(s, k + 1, k + Len(sub)) = sub

Statuses == {"passed", "failed", "timedOut", "skipped", "interrupted"}

\* line 248: the key of a record's group
RunKeyNoFallback(run) == run.runId

RunKey(run) == JsOr(run.runId, "LEGACY-RUN")

\* lines 249-261: the group a key is first seen with
NewGroup(rId, run) ==
    [id |-> rId, timestamp |-> run.timestamp, results |-> <<>>, passed |-> 0,
     failed |-> 0, duration |-> 0, wallClockTime |-> 0, browsers |-> <<>>,
     executionMode |-> "unknown"]

\* a plausible slip: unshift for push
PushResultFront(results, run) == <<run>> \o results

\* line 262: acc[rId].results.push(run)
PushResult(results, run) == Append(results, run)

\* a plausible slip: the three-way split of the mode metrics used here
CountsAsFailedThreeWay(status) == status \notin {"passed", "skipped"}

\* lines 263-264: every status but 'passed' counts as failed
CountsAsFailed(status) == status # "passed"

\* lines 262-268: one record added to its group
Accumulate(g, run) ==
    [g EXCEPT !.results = PushResult(@, run),
              !.passed = IF run.status = "passed" THEN @ + 1 ELSE @,
              !.failed = IF CountsAsFailed(run.status) THEN @ + 1 ELSE @,
              !.duration = JsAdd(@, run.duration),
              !.browsers = IF run.browser # NoField
                              /\ \A k \in DOMAIN @ : @[k] # run.browser
                           THEN Append(@, run.browser) ELSE @]

\* the position of key rId in the object acc, 0 when acc has no such key
KeyIndex(acc, rId) ==
    IF \E k \in DOMAIN acc : acc[k].id = rId
    THEN CHOOSE k \in DOMAIN acc : acc[k].id = rId
    ELSE 0

\* lines 247-269: the reducer
GroupStep(acc, run) ==
    LET rId == RunKey(run)
        acc1 == IF KeyIndex(acc, rId) = 0 THEN Append(acc, NewGroup(rId, run)) ELSE acc
        k == KeyIndex(acc1, rId)
    IN  [acc1 EXCEPT ![k] = Accumulate(@, run)]

RECURSIVE GroupReduce(_, _)
\* lines 247-270: history.reduce(..., {}), the callback applied to the records
\* from left to right: to the first half, then from that result to the second
GroupReduce(acc, records) ==
    IF records = <<>> THEN acc
    ELSE IF Len(records) = 1 THEN GroupStep(acc, records[1])
    ELSE LET half == Len(records) \div 2
             firstHalf == GroupReduce(acc, SubSeq(records, 1, half))
         IN  \* a record always leaves a group, so the test only fixes the
             \* order of evaluation: the first half before the second
             IF Len(firstHalf) = 0 THEN firstHalf
             ELSE GroupReduce(firstHalf, SubSeq(records, half + 1, Len(records)))

\* a plausible slip: the run taken to end when its last-started test started
WallClockNoDuration(results) ==
    LET timestamps == [k \in DOMAIN results |-> DateGetTime(results[k].timestamp)]
    IN  JsSub(MathMax(timestamps), MathMin(timestamps))

\* a plausible slip: the records taken to be in time order
WallClockFirstToLast(results) ==
    LET last == results[Len(results)]
    IN  JsSub(JsAdd(DateGetTime(last.timestamp), last.duration),
              DateGetTime(results[1].timestamp))

\* lines 275-280: the wall-clock time of a run
WallClock(results) ==
    LET timestamps == [k \in DOMAIN results |-> DateGetTime(results[k].timestamp)]
        startTimeOfRun == MathMin(timestamps)
        endTimes == [k \in DOMAIN results |->
                        JsAdd(DateGetTime(results[k].timestamp), results[k].duration)]
        endTime == MathMax(endTimes)
    IN  JsSub(endTime, startTimeOfRun)

\* a plausible slip: the tag of the last record decides
ClassifyModeLast(results) ==
    LET tag == results[Len(results)].executionMode
        mode == IF tag = <<>> THEN StrUnknown ELSE tag
    IN  IF Includes(mode, StrParallel) \/ mode = StrTest \/ mode = StrNpx
        THEN "parallel"
        ELSE IF Includes(mode, StrSequential) THEN "sequential" ELSE "parallel"

\* lines 283-290: the execution mode, from the first result's tag
ClassifyMode(results) ==
    LET tag == results[1].executionMode
        mode == IF tag = <<>> THEN StrUnknown ELSE tag
    IN  IF Includes(mode, StrParallel) \/ mode = StrTest \/ mode = StrNpx
        THEN "parallel"
        ELSE IF Includes(mode, StrSequential) THEN "sequential" ELSE "parallel"

\* lines 273-292: the second pass over a group
WallClockPass(run) ==
    IF Len(run.results) > 0
    THEN [run EXCEPT !.wallClockTime = WallClock(run.results),
                     !.executionMode = ClassifyMode(run.results)]
    ELSE run

\* lines 246-292: the groups of a parsed history
GroupRuns(records) ==
    LET acc == GroupReduce(<<>>, records)
    IN  [k \in DOMAIN acc |-> WallClockPass(acc[k])]

(***************************************************************************)
(* generate-report.ts: the statistics of the dashboard                     *)
(***************************************************************************)
\* a > b on numbers: false when either is NaN
JsGt(a, b) == ~IsNaN(a) /\ ~IsNaN(b) /\ a > b

\* Math.round(a / b) for b > 0: the nearest integer, halves upwards; NaN stays
RoundDiv(a, b) == IF IsNaN(a) THEN NaN ELSE (2 * a + b) \div (2 * b)

\* Math.round((part / whole) * 100) in double arithmetic, for 0 < whole < 200:
\* the nearest integer, halves upwards, except that (23 / 40) * 100 is
\* 57.49999999999999 and rounds to 57
RoundPercent(part, whole) ==
    IF part * 40 = 23 * whole THEN 57 ELSE RoundDiv(part * 100, whole)

RECURSIVE TotalDuration(_)
\* the running sum `+= r.duration` over an array of records, from 0; the sum
\* of integers or NaN does not depend on the grouping, so it is taken by halves
TotalDuration(records) ==
    IF records = <<>> THEN 0
    ELSE IF Len(records) = 1 THEN JsAdd(0, records[1].duration)
    ELSE LET half == Len(records) \div 2
         IN  JsAdd(TotalDuration(SubSeq(records, 1, half)),
                   TotalDuration(SubSeq(records, half + 1, Len(records))))

\* the keys of `stats`, in the order of the object literal
BrowserTypes == <<"chromium", "firefox", "webkit">>

\* line 108: record.browser || 'chromium'
BrowserOf(record) == JsOr(record.browser, "chromium")

\* line 119: only browsers with at least one record are emitted
EmitBrowser(s) == s.count > 0

\* a plausible slip: floor for round
StabilityFloor(passed, total) == (passed * 100) \div total

\* line 126: Math.round((s.passed / s.count) * 100)
Stability(passed, total) == IF total > 0 THEN RoundPercent(passed, total) ELSE 0

\* lines 100-128
CalculateBrowserStats(records) ==
    LET of(b) == SelectSeq(records, LAMBDA r : BrowserOf(r) = b)
        acc(b) == [passed |-> Len(SelectSeq(of(b), LAMBDA r : r.status = "passed")),
                   failed |-> Len(SelectSeq(of(b), LAMBDA r : r.status # "passed")),
                   totalDuration |-> TotalDuration(of(b)),
                   count |-> Len(of(b))]
        emitted == SelectSeq(BrowserTypes, LAMBDA b : EmitBrowser(acc(b)))
    IN  [k \in DOMAIN emitted |->
            LET b == emitted[k]
                st == acc(b)
            IN  [browser |-> b, passed |-> st.passed, failed |-> st.failed,
                 total |-> st.count,
                 avgDuration |-> RoundDiv(st.totalDuration, st.count),
                 stability |-> Stability(st.passed, st.count)]]

\* a plausible slip: an unknown mode taken for sequential
MetricsModeDefaultSequential(run) ==
    LET tag == run.results[1].executionMode
        mode == IF tag = <<>> THEN StrUnknown ELSE tag
    IN  IF Includes(mode, StrParallel) \/ mode = StrTest \/ mode = StrNpx
        THEN "parallel" ELSE "sequential"

\* lines 165-173: the partition a run goes to
MetricsMode(run) ==
    LET tag == run.results[1].executionMode
        mode == IF tag = <<>> THEN StrUnknown ELSE tag
    IN  IF Includes(mode, StrParallel) \/ mode = StrTest \/ mode = StrNpx
        THEN "parallel"
        ELSE IF Includes(mode, StrSequential) THEN "sequential" ELSE "parallel"

RECURSIVE TotalWallClockTime(_)
\* line 190: totalWallClockTime += run.wallClockTime
TotalWallClockTime(runList) ==
    IF runList = <<>> THEN 0
    ELSE JsAdd(Head(runList).wallClockTime, TotalWallClockTime(Tail(runList)))

RECURSIVE AllResults(_)
\* the records of the runs of a list, run after run
AllResults(runList) ==
    IF runList = <<>> THEN <<>>
    ELSE Head(runList).results \o AllResults(Tail(runList))

\* a plausible slip: the two-way split of the grouping used here
MetricsFailedTwoWay(status) == status # "passed"

\* lines 194-196: failed is what is neither passed nor skipped
MetricsFailed(status) == status # "passed" /\ status # "skipped"

\* a plausible slip: a wall-clock time that is NaN counted as 0
AvgRunTimeClamped(runList) ==
    RoundDiv(TotalWallClockTime(SelectSeq(runList, LAMBDA r : ~IsNaN(r.wallClockTime))),
             Len(runList))

\* line 205: Math.round(totalWallClockTime / runList.length)
AvgRunTime(runList) ==
    IF Len(runList) > 0 THEN RoundDiv(TotalWallClockTime(runList), Len(runList)) ELSE 0

\* a plausible slip: the averages of an empty list divided by its length
ZeroMetricsMissing(mode) ==
    [mode |-> mode, totalRuns |-> 0, totalTests |-> 0, avgDuration |-> NaN,
     avgRunTime |-> NaN, passRate |-> NaN, passed |-> 0, failed |-> 0, skipped |-> 0]

\* line 178: the metrics of an empty list
ZeroMetrics(mode) ==
    [mode |-> mode, totalRuns |-> 0, totalTests |-> 0, avgDuration |-> 0,
     avgRunTime |-> 0, passRate |-> 0, passed |-> 0, failed |-> 0, skipped |-> 0]

\* lines 176-211
CalcMetrics(runList, mode) ==
    IF Len(runList) = 0 THEN ZeroMetrics(mode)
    ELSE LET rs == AllResults(runList)
             totalTests == Len(rs)
             passed == Len(SelectSeq(rs, LAMBDA r : r.status = "passed"))
             skipped == Len(SelectSeq(rs, LAMBDA r : r.status = "skipped"))
             failed == Len(SelectSeq(rs, LAMBDA r : MetricsFailed(r.status)))
         IN  [mode |-> mode,
              totalRuns |-> Len(runList),
              totalTests |-> totalTests,
              avgDuration |-> IF totalTests > 0
                              THEN RoundDiv(TotalDuration(rs), totalTests) ELSE 0,
              avgRunTime |-> AvgRunTime(runList),
              passRate |-> IF totalTests > 0
                           THEN RoundPercent(passed, totalTests) ELSE 0,
              passed |-> passed, failed |-> failed, skipped |-> skipped]

\* lines 160-217
CalculateExecutionModeMetrics(groups) ==
    [parallel |->
        CalcMetrics(SelectSeq(groups, LAMBDA r : MetricsMode(r) = "parallel"), "Parallel"),
     sequential |->
        CalcMetrics(SelectSeq(groups, LAMBDA r : MetricsMode(r) = "sequential"),
                    "Sequential")]

\* the number of records the global statistics look at (line 297)
RecentWindow == 100

\* a plausible slip: the first records for the last ones
RecentHistoryFirst(records) ==
    IF Len(records) > RecentWindow THEN SubSeq(records, 1, RecentWindow) ELSE records

\* line 297: history.slice(-100)
RecentHistory(records) ==
    IF Len(records) > RecentWindow
    THEN SubSeq(records, Len(records) - RecentWindow + 1, Len(records))
    ELSE records

\* lines 298-300, 309: total, passed, failed and skipped of the window
GlobalStats(recentHistory) ==
    [total |-> Len(recentHistory),
     passed |-> Len(SelectSeq(recentHistory, LAMBDA r : r.status = "passed")),
     failed |-> Len(SelectSeq(recentHistory, LAMBDA r : r.status # "passed")),
     skipped |-> Len(SelectSeq(recentHistory, LAMBDA r : r.status = "skipped"))]

RECURSIVE StableSortDescending(_)
\* a stable sort by the time of the group's timestamp, latest first
StableSortDescending(groups) ==
    IF groups = <<>> THEN <<>>
    ELSE LET latest == Max({DateGetTime(groups[k].timestamp) : k \in DOMAIN groups})
         IN  SelectSeq(groups, LAMBDA g : DateGetTime(g.timestamp) = latest)
             \o StableSortDescending(
                   SelectSeq(groups, LAMBDA g : DateGetTime(g.timestamp) # latest))

\* line 294: what Object.values(runs).sort(comparator) may return.  The sort
\* is stable; a comparator that returns NaN (a timestamp that does not parse)
\* is not a consistent one, and the order is then left to the implementation.
SortOrders(groups) ==
    IF \A k \in DOMAIN groups : ~IsNaN(DateGetTime(groups[k].timestamp))
    THEN {StableSortDescending(groups)}
    ELSE {[k \in DOMAIN groups |-> groups[p[k]]] : p \in Permutations(DOMAIN groups)}

NoSpeedup == [shown |-> FALSE, sequential |-> 0, parallel |-> 0]

\* a plausible slip: the figure shown whenever the parallel average is not 0
PerformanceGainUnguarded(metrics) ==
    IF metrics.parallel.avgRunTime # 0
    THEN [shown |-> TRUE, sequential |-> metrics.sequential.avgRunTime,
          parallel |-> metrics.parallel.avgRunTime]
    ELSE NoSpeedup

\* lines 576-578: the quotient sequential / parallel (kept as its two terms;
\* toFixed(1) + 'x' formats it), or the placeholder '-'
PerformanceGain(metrics) ==
    IF JsGt(metrics.parallel.avgRunTime, 0) /\ JsGt(metrics.sequential.avgRunTime, 0)
    THEN [shown |-> TRUE, sequential |-> metrics.sequential.avgRunTime,
          parallel |-> metrics.parallel.avgRunTime]
    ELSE NoSpeedup

\* a plausible slip: the array written holds the new record alone
PushRecordFresh(read, record) == <<record>>

\* line 230: history.push(record)
PushRecord(read, record) == Append(read, record)

\* a plausible slip: unreadable content kept, the append given up
WriteHistoryUnlessUnreadable(file, read, record) ==
    IF file.exists /\ ~file.parses THEN file
    ELSE [exists |-> TRUE, parses |-> TRUE, records |-> PushRecord(read, record)]

\* lines 232-236: the array written over the file, whatever it held
WriteHistory(file, read, record) ==
    [exists |-> TRUE, parses |-> TRUE, records |-> PushRecord(read, record)]

\* a plausible slip: the file never read, every append starting fresh
ReadHistoryNone(file) == <<>>

\* lines 221-228: the array read, empty when there is no file or it does not parse
ReadHistory(file) == IF file.exists /\ file.parses THEN file.records ELSE <<>>

\* CustomReporter.appendToHistory: read, push, write
AppendToHistory(record) ==
    /\ Len(historyFile.records) - preloaded < MaxRecords
    /\ historyFile' = WriteHistory(historyFile, ReadHistory(historyFile), record)
    /\ reporterLog' = IF historyFile.exists /\ ~historyFile.parses
                      THEN "read-error" ELSE ""
    /\ UNCHANGED <<history, runs, reportLog, reportVars, preloaded, reportFile>>
    /\ UNCHANGED <<waiterVars, countVars, laterVars>>

\* the reporter processes of two test runs that share the history file
Writers == {1, 2}

\* the records a process appends carry the runId of its run
RunIdOf(p) == IF p = 1 THEN "RUN-1" ELSE "RUN-2"

\* appendToHistory of process p, lines 219-230: the file is read and the
\* record pushed on the array read
WriterRead(p, record) ==
    /\ writers[p].pc = "idle"
    /\ record.runId = RunIdOf(p)
    /\ completed[1] + completed[2]
           + Cardinality({q \in Writers : writers[q].pc = "read"}) < MaxRecords
    /\ writers' = [writers EXCEPT ![p] = [pc |-> "read",
                                          read |-> ReadHistory(historyFile),
                                          pending |-> <<record>>]]
    /\ UNCHANGED <<completed, aggVars>>
    /\ UNCHANGED <<waiterVars, countVars, uiVars, retryVars>>

\* appendToHistory of process p, lines 232-236: the array is written and the
\* call returns
WriterWrite(p) ==
    /\ writers[p].pc = "read"
    /\ historyFile' = WriteHistory(historyFile, writers[p].read, writers[p].pending[1])
    /\ writers' = [writers EXCEPT ![p] = [pc |-> "idle", read |-> <<>>,
                                          pending |-> <<>>]]
    /\ completed' = [completed EXCEPT ![p] = @ + 1]
    /\ UNCHANGED <<history, runs, reportLog, reportVars, preloaded, reportFile,
                   reporterLog>>
    /\ UNCHANGED <<waiterVars, countVars, uiVars, retryVars>>

WriterInit ==
    /\ writers = [p \in Writers |-> [pc |-> "idle", read |-> <<>>, pending |-> <<>>]]
    /\ completed = [p \in Writers |-> 0]

\* the history file is damaged from outside: its content no longer parses
CorruptStore ==
    /\ historyFile.exists
    /\ historyFile.parses
    /\ historyFile' = [historyFile EXCEPT !.parses = FALSE]
    /\ UNCHANGED <<history, runs, reportLog, reportVars, preloaded, reportFile,
                   reporterLog>>
    /\ UNCHANGED <<waiterVars, countVars, laterVars>>

\* the history file is deleted from outside
RemoveStore ==
    /\ historyFile.exists
    /\ historyFile' = [exists |-> FALSE, parses |-> TRUE, records |-> <<>>]
    /\ preloaded' = 0
    /\ UNCHANGED <<history, runs, reportLog, reportVars, reportFile, reporterLog>>
    /\ UNCHANGED <<waiterVars, countVars, laterVars>>

\* a plausible slip: the report emptied before the history is looked at
KeepReportTruncated(file) == [file EXCEPT !.historyData = <<>>, !.runGroups = <<>>]

\* lines 232-244: the early returns do not touch the report file
KeepReport(file) == file

\* a plausible slip: no report written for an empty history
WriteReportUnlessEmpty(file, records, groups, sorted) ==
    IF records = <<>> THEN file
    ELSE [exists |-> TRUE, historyData |-> records, runGroups |-> groups,
          currentRun |-> sorted[1].id]

\* lines 699-702, 1013: the page written, with the data its script works on
WriteReport(file, records, groups, sorted) ==
    [exists |-> TRUE, historyData |-> records, runGroups |-> groups,
     currentRun |-> IF Len(sorted) > 0 THEN sorted[1].id ELSE ""]

\* generateReport, up to the values the dashboard is rendered from (the
\* formatted passRate and avgDuration strings of the window are left out)
GenerateReport ==
    /\ IF ~historyFile.exists
       THEN /\ reportLog' = "warn"
            /\ reportFile' = KeepReport(reportFile)
            /\ UNCHANGED <<history, runs, reportVars>>
       ELSE IF ~historyFile.parses
            THEN /\ reportLog' = "error"
                 /\ reportFile' = KeepReport(reportFile)
                 /\ UNCHANGED <<history, runs, reportVars>>
            ELSE /\ history' = historyFile.records
                 /\ runs' = GroupRuns(history')
                 /\ sortedRuns' \in SortOrders(runs')
                 /\ stats' = GlobalStats(RecentHistory(history'))
                 /\ browserStats' = CalculateBrowserStats(RecentHistory(history'))
                 /\ executionMetrics' = CalculateExecutionModeMetrics(runs')
                 /\ speedup' = PerformanceGain(executionMetrics')
                 /\ reportFile' = WriteReport(reportFile, history', runs', sortedRuns')
                 /\ reportLog' = "generated"
    /\ UNCHANGED <<historyFile, preloaded, reporterLog>>
    /\ UNCHANGED <<waiterVars, countVars, laterVars>>

\* no report yet
NoReport ==
    /\ history = <<>>
    /\ runs = <<>>
    /\ reportLog = ""
    /\ sortedRuns = <<>>
    /\ stats = [total |-> 0, passed |-> 0, failed |-> 0, skipped |-> 0]
    /\ browserStats = <<>>
    /\ executionMetrics = [parallel |-> ZeroMetrics("Parallel"),
                           sequential |-> ZeroMetrics("Sequential")]
    /\ speedup = NoSpeedup
    /\ reportFile = [exists |-> FALSE, historyData |-> <<>>, runGroups |-> <<>>,
                     currentRun |-> ""]
    /\ reporterLog = ""

AggInit ==
    /\ historyFile = [exists |-> FALSE, parses |-> TRUE, records |-> <<>>]
    /\ preloaded = 0
    /\ NoReport

(***************************************************************************)
(* CustomReporter.onTestEnd: the record of a finished test                 *)
(* Texts are sequences of characters, paths sequences of segments, and an  *)
(* optional value is a sequence of no or one element.                      *)
(***************************************************************************)
UpperCase == <<"A", "B", "C", "D", "E", "F", "G", "H", "I", "J", "K", "L", "M",
               "N", "O", "P", "Q", "R", "S", "T", "U", "V", "W", "X", "Y", "Z">>
LowerCase == <<"a", "b", "c", "d", "e", "f", "g", "h", "i", "j", "k", "l", "m",
               "n", "o", "p", "q", "r", "s", "t", "u", "v", "w", "x", "y", "z">>
Digits == <<"0", "1", "2", "3", "4", "5", "6", "7", "8", "9">>

\* String.prototype.toLowerCase
ToLowerCase(text) ==
    [k \in DOMAIN text |->
        IF \E i \in DOMAIN UpperCase : UpperCase[i] = text[k]
        THEN LowerCase[CHOOSE i \in DOMAIN UpperCase : UpperCase[i] = text[k]]
        ELSE text[k]]

IsDigit(c) == \E i \in DOMAIN Digits : Digits[i] = c

DigitValue(c) == (CHOOSE i \in DOMAIN Digits : Digits[i] = c) - 1

\* the length of the longest run of digits of text that starts at position from
DigitRun(text, from) ==
    CHOOSE n \in 0..Len(text) :
        /\ from + n - 1 <= Len(text)
        /\ \A i \in from..(from + n - 1) : IsDigit(text[i])
        /\ from + n > Len(text) \/ ~IsDigit(text[from + n])

RECURSIVE DecimalValue(_)
\* the number a run of digits writes
DecimalValue(digits) ==
    IF digits = <<>> THEN 0
    ELSE 10 * DecimalValue(SubSeq(digits, 1, Len(digits) - 1))
         + DigitValue(digits[Len(digits)])

\* parseInt(text, 10) of a text without leading blanks: an optional sign and
\* the digits that follow, NaN when there is none
ParseInt(text) ==
    LET signed == Len(text) > 0 /\ text[1] \in {"-", "+"}
        from == IF signed THEN 2 ELSE 1
        n == DigitRun(text, from)
        value == DecimalValue(SubSeq(text, from, from + n - 1))
    IN  IF n = 0 THEN NaN
        ELSE IF signed /\ text[1] = "-" THEN 0 - value ELSE value

RECURSIVE ToChars(_)
\* the decimal writing of a natural number
ToChars(n) == IF n < 10 THEN <<Digits[n + 1]>>
              ELSE ToChars(n \div 10) \o <<Digits[(n % 10) + 1]>>

StrTC == <<"T", "C">>
StrFallbackId == <<"T", "C", "-", "?">>
StrFirefox == <<"f", "i", "r", "e", "f", "o", "x">>
StrWebkit == <<"w", "e", "b", "k", "i", "t">>
StrSafari == <<"s", "a", "f", "a", "r", "i">>
StrChromium == <<"c", "h", "r", "o", "m", "i", "u", "m">>
StrOther == <<"O", "t", "h", "e", "r">>
StrFilterTests == <<"F", "i", "l", "t", "e", "r", " ", "T", "e", "s", "t", "s">>
StrUIStateTests ==
    <<"U", "I", " ", "S", "t", "a", "t", "e", " ", "T", "e", "s", "t", "s">>
StrSortingTests == <<"S", "o", "r", "t", "i", "n", "g", " ", "T", "e", "s", "t", "s">>
StrDataIntegrityTests ==
    <<"D", "a", "t", "a", " ", "I", "n", "t", "e", "g", "r", "i", "t", "y", " ",
      "T", "e", "s", "t", "s">>

\* the number of blanks of text from position from on
BlankRun(text, from) ==
    CHOOSE n \in 0..Len(text) :
        /\ from + n - 1 <= Len(text)
        /\ \A i \in from..(from + n - 1) : text[i] = " "
        /\ from + n > Len(text) \/ text[from + n] # " "

\* line 81: title.match(/^(TC\d+):\s*(.*)$/), as [matches, id, name]
TitleMatch(title) ==
    LET n == IF Len(title) >= 2 THEN DigitRun(title, 3) ELSE 0
        colon == 3 + n
        matches == /\ Len(title) >= colon
                   /\ SubSeq(title, 1, 2) = StrTC
                   /\ n >= 1
                   /\ title[colon] = ":"
        rest == colon + 1 + BlankRun(title, colon + 1)
    IN  IF matches
        THEN [matches |-> TRUE, id |-> SubSeq(title, 1, 2 + n),
              name |-> SubSeq(title, rest, Len(title))]
        ELSE [matches |-> FALSE, id |-> <<>>, name |-> <<>>]

\* lines 36-44: getTestCategory
GetTestCategory(testId) ==
    LET text == IF Len(testId) >= 2 /\ SubSeq(testId, 1, 2) = StrTC
                THEN SubSeq(testId, 3, Len(testId)) ELSE testId
        id == ParseInt(text)
    IN  IF IsNaN(id) THEN StrOther
        ELSE IF id >= 1 /\ id <= 4 THEN StrFilterTests
        ELSE IF id >= 5 /\ id <= 6 THEN StrUIStateTests
        ELSE IF id >= 7 /\ id <= 8 THEN StrSortingTests
        ELSE IF id >= 9 /\ id <= 10 THEN StrDataIntegrityTests
        ELSE StrOther

\* lines 49-54: getBrowserType
GetBrowserType(projectName) ==
    LET name == ToLowerCase(projectName)
    IN  IF Includes(name, StrFirefox) THEN "firefox"
        ELSE IF Includes(name, StrWebkit) \/ Includes(name, StrSafari) THEN "webkit"
        ELSE "chromium"

\* lines 59-73: extractError
ExtractError(result) ==
    IF result.status = "passed" THEN <<>>
    ELSE IF result.error = <<>> THEN <<>>
    ELSE <<[message |-> IF result.error[1].message = "" THEN "Unknown error"
                        ELSE result.error[1].message]>>

\* path.relative(process.cwd(), p): attachment paths are kept relative to the
\* working directory
PathRelative(path) == path

\* a plausible slip: the path in the archive returned although nothing was copied
ArchiveScreenshotAlways(attachment, runId) ==
    <<"screenshots", runId, attachment.path[Len(attachment.path)]>>

\* lines 98-110: archiveScreenshot; the file of the attachment is "present",
\* "missing", or "uncopyable" when copyFileSync throws
ArchiveScreenshot(attachment, runId) ==
    IF attachment.file = "present"
    THEN <<"screenshots", runId, attachment.path[Len(attachment.path)]>>
    ELSE <<>>

\* lines 120-126: the first image attachment of a step, archived; its own path
\* when it could not be archived; nothing when there is no image with a path
ImageOf(attachments, runId) ==
    LET images == SelectSeq(attachments, LAMBDA a : a.image)
    IN  IF images # <<>> /\ images[1].path # <<>>
        THEN IF ArchiveScreenshot(images[1], runId) # <<>>
             THEN ArchiveScreenshot(images[1], runId)
             ELSE PathRelative(images[1].path)
        ELSE <<>>

\* lines 119-134: findImage, for steps whose sub-steps have no sub-steps
FindImage(step, runId) ==
    IF ImageOf(step.attachments, runId) # <<>>
    THEN ImageOf(step.attachments, runId)
    ELSE LET found == SelectSeq(step.steps,
                                LAMBDA sub : ImageOf(sub.attachments, runId) # <<>>)
         IN  IF found # <<>> THEN ImageOf(found[1].attachments, runId) ELSE <<>>

\* lines 137-171: the steps recorded from result.steps (titles without '|')
RecordedSteps(result, runId) ==
    LET testSteps == SelectSeq(result.steps, LAMBDA st : st.category = "test.step")
    IN  [k \in DOMAIN testSteps |->
            [name |-> testSteps[k].title,
             status |-> IF testSteps[k].error # <<>> THEN "failed" ELSE "passed",
             screenshot |-> FindImage(testSteps[k], runId),
             error |-> IF testSteps[k].error # <<>>
                       THEN <<[message |-> IF testSteps[k].error[1].message = ""
                                           THEN "Step failed"
                                           ELSE testSteps[k].error[1].message]>>
                       ELSE <<>>]]

StrFinalEvidence ==
    <<"F", "i", "n", "a", "l", " ", "E", "v", "i", "d", "e", "n", "c", "e">>

\* lines 174-189: the step recorded in place of missing steps
FallbackSteps(result, runId) ==
    LET images == SelectSeq(result.attachments, LAMBDA a : a.image)
    IN  IF images # <<>> /\ images[1].path # <<>>
        THEN <<[name |-> StrFinalEvidence,
                status |-> result.status,
                screenshot |-> IF ArchiveScreenshot(images[1], runId) # <<>>
                               THEN ArchiveScreenshot(images[1], runId)
                               ELSE PathRelative(images[1].path),
                error |-> <<>>]>>
        ELSE <<>>

\* lines 79-207: the record onTestEnd builds
BuildRecord(test, result, runId, endedAt) ==
    LET titleMatch == TitleMatch(test.title)
        testId == IF titleMatch.matches THEN titleMatch.id ELSE StrFallbackId
        testName == IF titleMatch.matches THEN titleMatch.name ELSE test.title
        steps == RecordedSteps(result, runId)
    IN  [testId |-> testId,
         runId |-> runId,
         testName |-> testName,
         status |-> result.status,
         duration |-> result.duration,
         timestamp |-> endedAt,
         steps |-> IF Len(steps) = 0 THEN FallbackSteps(result, runId) ELSE steps,
         executionMode |-> StrTest,
         browser |-> GetBrowserType(IF test.project = <<>> THEN StrChromium
                                    ELSE test.project),
         category |-> GetTestCategory(testId),
         error |-> ExtractError(result)]

(***************************************************************************)
(* generate-report.ts: the script of the evidence explorer                 *)
(* page is the report open in a browser: the globals of its script, the    *)
(* elements the script writes, and the image timers setStep has started.   *)
(***************************************************************************)
\* line 834: noScreenshotPlaceholder
NoScreenshotPlaceholder == <<"data:image/svg+xml">>

\* lines 29-31: BROWSER_INFO[browser].name
BrowserName(browser) ==
    IF browser = "firefox" THEN <<"F", "i", "r", "e", "f", "o", "x">>
    ELSE IF browser = "webkit" THEN <<"S", "a", "f", "a", "r", "i">>
    ELSE <<"C", "h", "r", "o", "m", "e">>

\* r.browser || 'chromium'
BrowserOrDefault(r) == IF r.browser \in {NoField, ""} THEN "chromium" ELSE r.browser

\* lines 779-787: the text of a card, element after element
CardText(r) ==
    r.testId \o <<":", " ">> \o r.testName \o <<"\n">>
    \o BrowserName(BrowserOrDefault(r)) \o <<" ">>
    \o (IF r.category = <<>> THEN StrOther ELSE r.category) \o <<" ">>
    \o ToChars(r.duration) \o <<"m", "s">>

\* runGroups[currentRun]: no or one group
CurrentRun(p) ==
    IF KeyIndex(p.runGroups, p.currentRun) = 0 THEN <<>>
    ELSE <<p.runGroups[KeyIndex(p.runGroups, p.currentRun)]>>

\* lines 797 and 838: run.results.find(...), as a position, 0 when undefined
FindResult(results, testId, browser) ==
    LET hits == {k \in DOMAIN results :
                    results[k].testId = testId
                    /\ BrowserOrDefault(results[k]) = browser}
    IN  IF hits = {} THEN 0 ELSE CHOOSE k \in hits : \A j \in hits : k <= j

\* line 862: step.error || result.error
ErrorOf(step, result) ==
    IF step.error # <<>> THEN step.error ELSE result.error

\* a plausible slip: the status of the step not looked at
ErrorPanelAnyStatus(step, result) ==
    IF ErrorOf(step, result) # <<>>
    THEN <<IF ErrorOf(step, result)[1].message = "" THEN "Step failed"
           ELSE ErrorOf(step, result)[1].message>>
    ELSE <<>>

\* lines 860-871: what setStep writes into the error panel
ErrorPanel(step, result) ==
    IF step.status = "failed" /\ ErrorOf(step, result) # <<>>
    THEN <<IF ErrorOf(step, result)[1].message = "" THEN "Step failed"
           ELSE ErrorOf(step, result)[1].message>>
    ELSE <<>>

\* line 853: step.screenshot || noScreenshotPlaceholder
ImageSource(step) ==
    IF step.screenshot = <<>> THEN NoScreenshotPlaceholder ELSE step.screenshot

\* lines 836-872: setStep(idx, testId, browser), idx counted from 0.  A
\* TypeError ends the handler where it is thrown: at line 839 when the run or
\* the result is undefined, at line 861 when the result has no step idx (the
\* timer started at line 852 then throws as well).
SetStep(p, idx, testId, browser) ==
    IF CurrentRun(p) = <<>> THEN p
    ELSE LET results == CurrentRun(p)[1].results
             k == FindResult(results, testId, browser)
         IN  IF k = 0 THEN p
             ELSE IF idx + 1 > Len(results[k].steps)
             THEN [p EXCEPT !.active = idx,
                            !.timers = Append(@, <<>>)]
             ELSE LET step == results[k].steps[idx + 1]
                  IN  [p EXCEPT !.active = idx,
                                !.timers = Append(@, <<step>>),
                                !.selected = <<[step |-> step, result |-> results[k]]>>,
                                !.errorPanel = ErrorPanel(step, results[k])]

\* lines 804-829: what viewTest writes for a result
Pane(result, testId, browser) ==
    [tcName |-> result.testName,
     tcMeta |-> [duration |-> result.duration,
                 browser |-> BrowserName(BrowserOrDefault(result)),
                 category |-> IF result.category = <<>> THEN StrOther
                              ELSE result.category,
                 status |-> result.status],
     timeline |-> [i \in DOMAIN result.steps |->
                      [name |-> result.steps[i].name,
                       status |-> result.steps[i].status,
                       testId |-> testId,
                       browser |-> browser]]]

\* the first card with data-id testId-browser, 0 when there is none
CardWithId(cards, testId, browser) ==
    LET hits == {k \in DOMAIN cards :
                    cards[k].testId = testId /\ cards[k].browser = browser}
    IN  IF hits = {} THEN 0 ELSE CHOOSE k \in hits : \A j \in hits : k <= j

\* lines 795-832: viewTest(testId, browser)
ViewTest(p, testId, browser) ==
    IF CurrentRun(p) = <<>> THEN p
    ELSE LET results == CurrentRun(p)[1].results
             k == FindResult(results, testId, browser)
         IN  IF k = 0 THEN p
             ELSE LET shown ==
                          [p EXCEPT !.activeCard = CardWithId(p.tcList, testId, browser),
                                    !.pane = Pane(results[k], testId, browser),
                                    !.errorPanel = <<>>,
                                    !.selected = <<>>,
                                    !.active = 0 - 1]
                  IN  IF Len(results[k].steps) > 0
                      THEN SetStep(shown, 0, testId, browser)
                      ELSE shown

\* lines 768-771: the results of the run the status filter lets through, as
\* positions in run.results
FilteredResults(results, filter) ==
    LET RECURSIVE Collect(_)
        Collect(k) ==
            IF k > Len(results) THEN <<>>
            ELSE IF filter = "all" \/ results[k].status = filter
                 THEN <<k>> \o Collect(k + 1)
                 ELSE Collect(k + 1)
    IN  Collect(1)

\* lines 763-793: updateTCList; every card is rendered from one result of
\* the run (from), and new cards are displayed
UpdateTCList(p) ==
    IF CurrentRun(p) = <<>> THEN p
    ELSE LET results == CurrentRun(p)[1].results
             filteredResults == FilteredResults(results, p.currentFilter)
             listed ==
                 [p EXCEPT !.tcList =
                     [i \in DOMAIN filteredResults |->
                         LET r == results[filteredResults[i]]
                         IN  [testId |-> r.testId,
                              browser |-> BrowserOrDefault(r),
                              status |-> r.status,
                              text |-> CardText(r),
                              display |-> TRUE,
                              from |-> filteredResults[i]]],
                           !.activeCard = 0]
         IN  IF Len(filteredResults) > 0
             THEN ViewTest(listed, results[filteredResults[1]].testId,
                           BrowserOrDefault(results[filteredResults[1]]))
             ELSE listed

\* lines 746-749: whether filterTests displays a card
ShowCard(card, search, filter) ==
    /\ Includes(ToLowerCase(card.text), search)
    /\ filter = "all" \/ card.status = filter

\* lines 743-751: filterTests
FilterTestsOf(p) ==
    [p EXCEPT !.tcList =
        [k \in DOMAIN p.tcList |->
            [p.tcList[k] EXCEPT !.display =
                ShowCard(p.tcList[k], ToLowerCase(p.testSearch), p.currentFilter)]]]

\* lines 665-690 and 699-703: the page as the browser builds it, before the
\* script at its end has run
FreshPage(file) ==
    [open |-> TRUE,
     runGroups |-> file.runGroups,
     currentRun |-> file.currentRun,
     currentFilter |-> "all",
     testSearch |-> <<>>,
     tcList |-> <<>>,
     activeCard |-> 0,
     pane |-> [tcName |-> <<>>,
               tcMeta |-> [duration |-> 0, browser |-> <<>>, category |-> <<>>,
                           status |-> ""],
               timeline |-> <<>>],
     active |-> 0 - 1,
     selected |-> <<>>,
     errorPanel |-> <<>>,
     mainImg |-> <<>>,
     stepName |-> <<>>,
     timers |-> <<>>,
     clicked |-> 0]

\* no page open
ClosedPage ==
    [FreshPage([runGroups |-> <<>>, currentRun |-> ""]) EXCEPT !.open = FALSE]

UiInit == page = ClosedPage

\* lines 1007-1008: the report is opened and the script at its end runs
LoadPage ==
    /\ reportFile.exists
    /\ page' = UpdateTCList(UpdateTCList(FreshPage(reportFile)))
    /\ UNCHANGED <<waiterVars, countVars, aggVars, writerVars, retryVars>>

\* lines 635 and 713-726: a run card of the dashboard is clicked
GoToRun(id) ==
    /\ page.open
    /\ Len(page.timers) < MaxTimers
    /\ KeyIndex(page.runGroups, id) # 0
    /\ page' = [UpdateTCList([page EXCEPT !.currentRun = id]) EXCEPT !.clicked = 0]
    /\ UNCHANGED <<waiterVars, countVars, aggVars, writerVars, retryVars>>

\* lines 666-668 and 728-733: a filter button is clicked
SetFilter(filter) ==
    /\ page.open
    /\ Len(page.timers) < MaxTimers
    /\ page' = [UpdateTCList([page EXCEPT !.currentFilter = filter])
                    EXCEPT !.clicked = 0]
    /\ UNCHANGED <<waiterVars, countVars, aggVars, writerVars, retryVars>>

\* lines 665 and 743-751: the search box is edited, and the key released
FilterTests(text) ==
    /\ page.open
    /\ page' = [FilterTestsOf([page EXCEPT !.testSearch = text]) EXCEPT !.clicked = 0]
    /\ UNCHANGED <<waiterVars, countVars, aggVars, writerVars, retryVars>>

\* line 777: a displayed card is clicked; clicked keeps the result the card
\* was rendered from
ClickCard(k) ==
    /\ page.open
    /\ Len(page.timers) < MaxTimers
    /\ k \in DOMAIN page.tcList
    /\ page.tcList[k].display
    /\ page' = [ViewTest(page, page.tcList[k].testId, page.tcList[k].browser)
                    EXCEPT !.clicked = page.tcList[k].from]
    /\ UNCHANGED <<waiterVars, countVars, aggVars, writerVars, retryVars>>

\* line 817: a step of the timeline is clicked
ClickStep(i) ==
    /\ page.open
    /\ Len(page.timers) < MaxTimers
    /\ i \in DOMAIN page.pane.timeline
    /\ page' = SetStep(page, i - 1, page.pane.timeline[i].testId,
                       page.pane.timeline[i].browser)
    /\ UNCHANGED <<waiterVars, countVars, aggVars, writerVars, retryVars>>

\* lines 852-856: the oldest image timer fires, with the step setStep had
\* found (none when it had found none, and the callback throws)
ImageTimer ==
    /\ page.open
    /\ page.timers # <<>>
    /\ page' = IF Head(page.timers) = <<>>
               THEN [page EXCEPT !.timers = Tail(@)]
               ELSE [page EXCEPT !.timers = Tail(@),
                                 !.mainImg = ImageSource(Head(page.timers)[1]),
                                 !.stepName = Head(page.timers)[1].name]
    /\ UNCHANGED <<waiterVars, countVars, aggVars, writerVars, retryVars>>

\* lines 848-850: the image at the path of mainImg does not load
ImageError ==
    /\ page.open
    /\ page.selected # <<>>
    /\ page.mainImg # <<>>
    /\ page.mainImg # NoScreenshotPlaceholder
    /\ page' = [page EXCEPT !.mainImg = NoScreenshotPlaceholder]
    /\ UNCHANGED <<waiterVars, countVars, aggVars, writerVars, retryVars>>

\* CustomReporter.ts lines 79-210: a test ends in the reporter of run runId
OnTestEnd(test, result, runId) ==
    /\ Len(historyFile.records) < MaxTests
    /\ AppendToHistory(BuildRecord(test, result, runId, T0s))

\* records that differ in run and status
GroupingRecords ==
    [runId : {NoField, "", "RUN-1", "RUN-2"}, status : Statuses, timestamp : {T0s},
     duration : {100}, browser : {"chromium"}, executionMode : {StrTest}]

\* records of one run that differ in start and duration
WallClockRecords ==
    [runId : {"RUN-1"}, status : {"passed"}, timestamp : {T0s, T1s, T2s, TBad},
     duration : {100, 150, 200}, browser : {"chromium"}, executionMode : {StrTest}]

\* records that differ in run and execution-mode tag
ModeRecords ==
    [runId : {"RUN-1", "RUN-2"}, status : {"passed"}, timestamp : {T0s},
     duration : {100}, browser : {"chromium"},
     executionMode : {StrParallelTests, StrSequentialRun, StrNpx, StrTest, StrEmpty,
                      StrUnknown}]

\* records that differ in run, mode and status
MetricsRecords ==
    [runId : {"RUN-1", "RUN-2"}, status : {"passed", "skipped", "failed", "timedOut"},
     timestamp : {T0s}, duration : {100}, browser : {"chromium"},
     executionMode : {StrTest, StrSequentialRun}]

\* records of a later run that differ in status and browser
WindowRecords ==
    [runId : {"RUN-3"}, status : {"passed", "skipped"}, timestamp : {T1s},
     duration : {101}, browser : {NoField, "webkit"}, executionMode : {StrTest}]

\* an early record with the latest start, and a later one with the earliest
FirstKind ==
    [runId |-> "RUN-1", status |-> "passed", timestamp |-> T2s, duration |-> 100,
     browser |-> "firefox", executionMode |-> StrTest]
SecondKind ==
    [runId |-> "RUN-2", status |-> "failed", timestamp |-> T0s, duration |-> 151,
     browser |-> "firefox", executionMode |-> StrSequentialRun]

\* how many records of the first and of the second kind a store holds when
\* the session starts: an empty one, 8 passed and 2 failed, 23 passed of 40,
\* and a full window
PreloadCounts == {<<0, 0>>, <<8, 2>>, <<23, 17>>, <<1, 99>>}

Repeat(x, n) == [k \in 1..n |-> x]

\* the stores a session may find: first all of one kind, then all of the other
PreloadedStores ==
    {Repeat(FirstKind, c[1]) \o Repeat(SecondKind, c[2]) : c \in PreloadCounts}

\* a history file left by earlier sessions
AggInitPreloaded ==
    /\ \E records \in PreloadedStores :
           /\ historyFile = [exists |-> TRUE, parses |-> TRUE, records |-> records]
           /\ preloaded = Len(records)
    /\ NoReport

\* records of three runs that differ in start, one start unparseable
SortRecords ==
    [runId : {"RUN-1", "RUN-2", "RUN-3"}, status : {"passed"},
     timestamp : {T0s, T1s, TBad}, duration : {100}, browser : {"chromium"},
     executionMode : {StrTest}]

\* records of a parallel and a sequential run that differ in start and
\* duration, one start unparseable
SpeedupRecords ==
    [runId : {"RUN-1", "RUN-2"}, status : {"passed"}, timestamp : {T0s, TBad},
     duration : {0, 100}, browser : {"chromium"},
     executionMode : {StrTest, StrSequentialRun}]

GroupingNext ==
    \/ \E record \in GroupingRecords : AppendToHistory(record)
    \/ GenerateReport

WallClockNext ==
    \/ \E record \in WallClockRecords : AppendToHistory(record)
    \/ GenerateReport

ModeNext ==
    \/ \E record \in ModeRecords : AppendToHistory(record)
    \/ GenerateReport

MetricsNext ==
    \/ \E record \in MetricsRecords : AppendToHistory(record)
    \/ GenerateReport

WindowNext ==
    \/ \E record \in WindowRecords : AppendToHistory(record)
    \/ GenerateReport

SortNext ==
    \/ \E record \in SortRecords : AppendToHistory(record)
    \/ GenerateReport

SpeedupNext ==
    \/ \E record \in SpeedupRecords : AppendToHistory(record)
    \/ GenerateReport

\* records of one run that differ in status
StoreRecords ==
    [runId : {"RUN-1"}, status : {"passed", "failed"}, timestamp : {T0s},
     duration : {100}, browser : {"chromium"}, executionMode : {StrTest}]

StoreNext ==
    \/ \E record \in StoreRecords : AppendToHistory(record)
    \/ GenerateReport
    \/ CorruptStore
    \/ RemoveStore

\* records of two runs that differ in status
WriterRecords ==
    [runId : {"RUN-1", "RUN-2"}, status : {"passed", "failed"}, timestamp : {T0s},
     duration : {100}, browser : {"chromium"}, executionMode : {StrTest}]

WriterNext ==
    \/ \E p \in Writers, record \in WriterRecords : WriterRead(p, record)
    \/ \E p \in Writers : WriterWrite(p)

vars == <<waiterVars, countVars, aggVars, laterVars>>

(***************************************************************************)
(* WaitHelpers.withRetry                                                   *)
(* retry is one call: where it stands (pc), its options after the defaults *)
(* of line 269, the loop counter, the outcome of every invocation of the   *)
(* action so far, the delays waited, lastError, and how the call ended.    *)
(***************************************************************************)
\* line 269: maxRetries = 3
DefaultMaxRetries == 3
\* line 269: delay = 1000
DefaultDelay == 1000

RetryIdle ==
    [pc |-> "idle", maxRetries |-> 0, delay |-> 0, attempt |-> 0,
     attempts |-> <<>>, waited |-> <<>>, lastError |-> <<>>, ended |-> <<>>]

RetryInit == retry = RetryIdle

\* a plausible slip: the delay waited after every failure
WaitsAfterAlways(attempt, maxRetries) == TRUE

\* line 277: whether a failed attempt is followed by the delay
WaitsAfter(attempt, maxRetries) == attempt < maxRetries

\* line 272: the condition of the loop
LoopContinues(attempt, maxRetries) == attempt <= maxRetries

\* lines 283-285: the message of the error thrown at the end ("undefined"
\* where lastError?.message is undefined)
FinalError(lastError) ==
    [attempts |-> retry.maxRetries,
     last |-> IF lastError = <<>> THEN "undefined" ELSE lastError[1]]

\* lines 265-272: withRetry is called, and the loop is entered or not
WithRetry(options) ==
    /\ retry.pc = "idle"
    /\ LET maxRetries == OrDefault(options.maxRetries, DefaultMaxRetries)
           delay == OrDefault(options.delay, DefaultDelay)
       IN  retry' = IF LoopContinues(1, maxRetries)
                    THEN [RetryIdle EXCEPT !.pc = "action",
                                           !.maxRetries = maxRetries,
                                           !.delay = delay,
                                           !.attempt = 1]
                    ELSE [RetryIdle EXCEPT !.pc = "thrown",
                                           !.maxRetries = maxRetries,
                                           !.delay = delay,
                                           !.attempt = 1,
                                           !.ended = <<[attempts |-> maxRetries,
                                                        last |-> "undefined"]>>]
    /\ UNCHANGED <<waiterVars, countVars, aggVars, writerVars, uiVars>>

\* line 274: the action resolves, and withRetry returns its value
ActionResolves(value) ==
    /\ retry.pc = "action"
    /\ retry' = [retry EXCEPT !.pc = "returned",
                              !.attempts = Append(@, "resolved"),
                              !.ended = <<value>>]
    /\ UNCHANGED <<waiterVars, countVars, aggVars, writerVars, uiVars>>

\* lines 275-279 and 272: the action rejects; the delay is started, or the
\* counter moves on and the loop goes on or ends in the throw of line 283
ActionRejects(message) ==
    /\ retry.pc = "action"
    /\ retry' =
          IF WaitsAfter(retry.attempt, retry.maxRetries)
          THEN [retry EXCEPT !.pc = "delay",
                             !.attempts = Append(@, "rejected"),
                             !.lastError = <<message>>]
          ELSE IF LoopContinues(retry.attempt + 1, retry.maxRetries)
          THEN [retry EXCEPT !.pc = "action",
                             !.attempt = @ + 1,
                             !.attempts = Append(@, "rejected"),
                             !.lastError = <<message>>]
          ELSE [retry EXCEPT !.pc = "thrown",
                             !.attempt = @ + 1,
                             !.attempts = Append(@, "rejected"),
                             !.lastError = <<message>>,
                             !.ended = <<FinalError(<<message>>)>>]
    /\ UNCHANGED <<waiterVars, countVars, aggVars, writerVars, uiVars>>

\* lines 278 and 272: the delay has passed; the next attempt, or the throw
DelayPasses ==
    /\ retry.pc = "delay"
    /\ retry' =
          IF LoopContinues(retry.attempt + 1, retry.maxRetries)
          THEN [retry EXCEPT !.pc = "action",
                             !.attempt = @ + 1,
                             !.waited = Append(@, retry.delay)]
          ELSE [retry EXCEPT !.pc = "thrown",
                             !.attempt = @ + 1,
                             !.waited = Append(@, retry.delay),
                             !.ended = <<FinalError(retry.lastError)>>]
    /\ UNCHANGED <<waiterVars, countVars, aggVars, writerVars, uiVars>>

\* the caller has the result or the error, and may call again
RetryDone ==
    /\ retry.pc \in {"returned", "thrown"}
    /\ retry' = RetryIdle
    /\ UNCHANGED <<waiterVars, countVars, aggVars, writerVars, uiVars>>

\* the options withRetry is called with
RetryOptions == [maxRetries : {Undefined, 0, 1, 2}, delay : {Undefined, 0, 50, 200}]

\* the messages the action rejects with
RetryMessages == {"first", "second"}

RetryNext ==
    \/ \E options \in RetryOptions : WithRetry(options)
    \/ ActionResolves("value")
    \/ \E message \in RetryMessages : ActionRejects(message)
    \/ DelayPasses
    \/ RetryDone

\* the tests whose reports are explored: a title the pattern of line 81
\* matches and one it does not match
TitleLogin == <<"T", "C", "1", ":", " ", "L", "o", "g", "i", "n">>
TitleSmoke == <<"S", "m", "o", "k", "e">>
TitleSetup == <<"S", "e", "t", "u", "p">>
StrOpen == <<"o", "p", "e", "n">>
StrLoginUpper == <<"L", "O", "G", "I", "N">>

\* an image attachment whose file is "present", "missing" or "uncopyable"
ImageAttachment(file) ==
    [image |-> TRUE, path |-> <<"test-results", "shot.png">>, file |-> file]

\* an attachment that is no image
TraceAttachment ==
    [image |-> FALSE, path |-> <<"test-results", "trace.zip">>, file |-> "present"]

\* a step of a Playwright result
PlaywrightStep(category, stepError, attachments, steps) ==
    [category |-> category, title |-> StrOpen, error |-> stepError,
     attachments |-> attachments, steps |-> steps]

\* how the tests of the explored runs end: [test, result, runId]
ExplorerEnds ==
    { \* passed, its step with an archived image
      [test |-> [title |-> TitleLogin, project |-> StrChromium],
       runId |-> "RUN-1",
       result |->
         [status |-> "passed", duration |-> 120, error |-> <<>>,
          attachments |-> <<>>,
          steps |-> <<PlaywrightStep("test.step", <<>>,
                                     <<TraceAttachment, ImageAttachment("present")>>,
                                     <<>>)>>]],
      \* the same test failed in a step whose image cannot be copied
      [test |-> [title |-> TitleLogin, project |-> StrChromium],
       runId |-> "RUN-1",
       result |->
         [status |-> "failed", duration |-> 80, error |-> <<[message |-> "boom"]>>,
          attachments |-> <<>>,
          steps |-> <<PlaywrightStep("pw:api", <<>>, <<>>, <<>>),
                      PlaywrightStep("test.step", <<[message |-> "step boom"]>>,
                                     <<ImageAttachment("uncopyable")>>, <<>>)>>]],
      \* failed without steps, the image of the result gone
      [test |-> [title |-> TitleSmoke, project |-> <<>>],
       runId |-> "RUN-1",
       result |->
         [status |-> "failed", duration |-> 80, error |-> <<[message |-> "crash"]>>,
          attachments |-> <<ImageAttachment("missing")>>, steps |-> <<>>]],
      \* failed without steps and without an error
      [test |-> [title |-> TitleSetup, project |-> <<>>],
       runId |-> "RUN-1",
       result |->
         [status |-> "failed", duration |-> 75, error |-> <<>>,
          attachments |-> <<ImageAttachment("present")>>, steps |-> <<>>]],
      \* timed out: a step without a message and without an image, then a
      \* step whose image is that of a sub-step
      [test |-> [title |-> TitleLogin, project |-> StrChromium],
       runId |-> "RUN-2",
       result |->
         [status |-> "timedOut", duration |-> 300, error |-> <<[message |-> ""]>>,
          attachments |-> <<>>,
          steps |-> <<PlaywrightStep("test.step", <<[message |-> ""]>>, <<>>, <<>>),
                      PlaywrightStep("test.step", <<>>, <<>>,
                                     <<PlaywrightStep("pw:api", <<>>,
                                                      <<ImageAttachment("present")>>,
                                                      <<>>)>>)>>]],
      \* passed without steps and without attachments
      [test |-> [title |-> TitleSmoke, project |-> <<>>],
       runId |-> "RUN-2",
       result |->
         [status |-> "passed", duration |-> 120, error |-> <<>>,
          attachments |-> <<>>, steps |-> <<>>]] }

\* the runs whose reporters record
ExplorerRuns == {"RUN-1", "RUN-2"}

\* the tests of a session end before its report is generated
TestEnds(end) ==
    /\ ~reportFile.exists
    /\ OnTestEnd(end.test, end.result, end.runId)

\* what is typed into the search box
SearchTexts == {<<>>, StrLoginUpper}

\* lines 666-668: the filters of the buttons
Filters == {"all", "passed", "failed"}

ExplorerNext ==
    \/ \E end \in ExplorerEnds : TestEnds(end)
    \/ GenerateReport
    \/ LoadPage
    \/ \E id \in ExplorerRuns : GoToRun(id)
    \/ \E filter \in Filters : SetFilter(filter)
    \/ \E text \in SearchTexts : FilterTests(text)
    \/ \E k \in DOMAIN page.tcList : ClickCard(k)
    \/ \E i \in DOMAIN page.pane.timeline : ClickStep(i)
    \/ ImageTimer
    \/ ImageError

LaterInit == WriterInit /\ UiInit /\ RetryInit

Init == WaiterInit /\ CountInit /\ AggInit /\ LaterInit

InitPreloaded == WaiterInit /\ CountInit /\ AggInitPreloaded /\ LaterInit

\* waitForTableStability and the page it observes
Spec == Init /\ [][WaiterNext]_vars

\* waitForStableCount and the page it polls
SpecStableCount == Init /\ [][CountNext]_vars

\* the reporter appending records of several runs and statuses, and the report
SpecGrouping == Init /\ [][GroupingNext]_vars

\* the reporter appending records of several starts and durations, and the report
SpecWallClock == Init /\ [][WallClockNext]_vars

\* the reporter appending records of several runs and mode tags, and the report
SpecMode == Init /\ [][ModeNext]_vars

\* the reporter appending records of several runs, modes and statuses, and the
\* report
SpecMetrics == Init /\ [][MetricsNext]_vars

\* the reporter appending records of three runs of several starts, and the
\* report
SpecSort == Init /\ [][SortNext]_vars

\* the reporter appending records of a parallel and a sequential run, and the
\* report
SpecSpeedup == Init /\ [][SpeedupNext]_vars

\* the reporter appending to a history file that may be damaged or deleted,
\* and the report
SpecStore == Init /\ [][StoreNext]_vars

\* two reporter processes appending to one history file, step by step
SpecWriters == Init /\ [][WriterNext]_vars

\* the reporter, the report and the evidence explorer of an opened report
SpecExplorer == Init /\ [][ExplorerNext]_vars

\* calls of withRetry; the action settles, a started delay passes
SpecRetry == Init /\ [][RetryNext]_vars /\ WF_vars(RetryNext)

\* the reporter appending to a store earlier sessions left, and the report
SpecWindow == InitPreloaded /\ [][WindowNext]_vars

(***************************************************************************)
(* Properties of waitForTableStability (under Spec)                        *)
(***************************************************************************)
Settled == promise # "pending"

\* nothing is left to run at the current instant
Idle == ~pendingRecord /\ \A t \in timers : t.due > now

\* C1: the promise is settled exactly once: resolve() and reject() are called
\* at most once together, the promise's state is the one call made, and the
\* timer that fired first has cancelled the other, which is pending no more.
C1_SettledExactlyOnce ==
    /\ resolveCalls + rejectCalls <= 1
    /\ (promise = "fulfilled") <=> (resolveCalls = 1)
    /\ (promise = "rejected") <=> (rejectCalls = 1)
    /\ resolveCalls = 1 => \A t \in timers : t.cb # "timeout"
    /\ rejectCalls = 1 => \A t \in timers : t.cb # "stability"

\* the timeout fired after two restarts of the stability timer
C1_Witness ==
    /\ rejectCalls = 1
    /\ resolveCalls = 0
    /\ mutations >= 2
    /\ stabilityTimer > timeoutTimer

\* C2: whenever the promise is settled, the observer is detached, no
\* mutation callback is queued and no timer is pending.
C2_NoLeakOnExit ==
    Settled => ~observing /\ ~pendingRecord /\ timers = {}

\* a resolution after a mutation, while the timeout was still pending
C2_Witness ==
    /\ promise = "fulfilled"
    /\ mutations >= 1
    /\ settledAt < maxTimeout
    /\ ~observing
    /\ timers = {}

\* C3: a resolution happens exactly threshold ms after the last observed
\* mutation (after the call when there is none), and when that instant is
\* earlier than the timeout and has been dealt with, the promise is resolved.
C3_ResolvesAfterQuietPeriod ==
    /\ promise = "fulfilled" => settledAt = lastMutation + threshold
    /\ (pc = "waiting" /\ Idle /\ now >= lastMutation + threshold
            /\ lastMutation + threshold < maxTimeout)
        => promise = "fulfilled" /\ settledAt = lastMutation + threshold

\* scenario C: one mutation at 30, threshold 100, timeout 1000: resolved at 130
C3_Witness ==
    /\ threshold = 100
    /\ maxTimeout = 1000
    /\ mutations = 1
    /\ lastMutation = 30
    /\ promise = "fulfilled"
    /\ settledAt = 130

\* a subtree that never mutates resolves at threshold
C3_WitnessNoMutation ==
    /\ mutations = 0
    /\ promise = "fulfilled"
    /\ settledAt = threshold

\* C4: a rejection happens at `timeout` with the error 'Table did not
\* stabilize within <timeout>ms'; when `timeout` is reached and dealt with and
\* no quiet period of threshold ms has occurred, the promise is rejected; and
\* the promise is never resolved without such a quiet period.
C4_TimeoutRejects ==
    /\ promise = "rejected"
        => /\ settledAt = maxTimeout
           /\ error = <<"Table did not stabilize within ", maxTimeout, "ms">>
    /\ (pc = "waiting" /\ Idle /\ now >= maxTimeout /\ ~quiet) => promise = "rejected"
    /\ promise = "fulfilled" => quiet

\* mutations less than 100 ms apart up to a timeout of 250
C4_Witness ==
    /\ promise = "rejected"
    /\ threshold = 100
    /\ maxTimeout = 250
    /\ mutations >= 2
    /\ ~quiet
    /\ settledAt = 250

KeyOf(r) == IF r.runId = NoField \/ r.runId = "" THEN "LEGACY-RUN" ELSE r.runId

RECURSIVE SumOfLengths(_)
SumOfLengths(groups) ==
    IF groups = <<>> THEN 0 ELSE Len(Head(groups).results) + SumOfLengths(Tail(groups))

RECURSIVE SumOfDurations(_)
SumOfDurations(records) ==
    IF records = <<>> THEN 0 ELSE Head(records).duration + SumOfDurations(Tail(records))

\* C6: grouping partitions the history: one group per key, each group's
\* results are the history's records of that key in encounter order, every
\* record's key has a group, and the results lengths sum to the history's.
C6_GroupingPartitions ==
    /\ \A i, j \in DOMAIN runs : runs[i].id = runs[j].id => i = j
    /\ \A i \in DOMAIN runs :
           runs[i].results = SelectSeq(history, LAMBDA r : KeyOf(r) = runs[i].id)
    /\ \A k \in DOMAIN history : \E i \in DOMAIN runs : runs[i].id = KeyOf(history[k])
    /\ SumOfLengths(runs) = Len(history)

\* two runs interleaved in the history, the first with two different records
C6_Witness ==
    /\ Len(history) = 3
    /\ Len(runs) = 2
    /\ history[1].runId = "RUN-1"
    /\ history[2].runId = "RUN-2"
    /\ history[3].runId = "RUN-1"
    /\ history[1].status # history[3].status
    /\ runs[1].results = <<history[1], history[3]>>

\* C7: every record without a runId, or with an empty one, is in the group
\* keyed 'LEGACY-RUN', which holds as many records as the history has such.
C7_LegacyBucket ==
    LET legacy == {k \in DOMAIN history : history[k].runId \in {NoField, ""}}
    IN  legacy # {} =>
            \E i \in DOMAIN runs :
                /\ runs[i].id = "LEGACY-RUN"
                /\ Len(runs[i].results) = Cardinality(legacy)
                /\ \A k \in legacy :
                       \E j \in DOMAIN runs[i].results : runs[i].results[j] = history[k]

\* a record without runId and one with an empty runId share the legacy group
C7_Witness ==
    /\ \E k \in DOMAIN history : history[k].runId = NoField
    /\ \E k \in DOMAIN history : history[k].runId = ""
    /\ \E k \in DOMAIN history : history[k].runId = "RUN-1"
    /\ \E i \in DOMAIN runs : runs[i].id = "LEGACY-RUN" /\ Len(runs[i].results) = 2

\* C8: in every group, passed counts the records with status 'passed' and
\* failed counts all the others, so passed + failed is the results length.
C8_PassedFailedCounts ==
    \A i \in DOMAIN runs :
        LET rs == runs[i].results
        IN  /\ runs[i].passed = Cardinality({k \in DOMAIN rs : rs[k].status = "passed"})
            /\ runs[i].failed = Cardinality({k \in DOMAIN rs : rs[k].status # "passed"})
            /\ runs[i].passed + runs[i].failed = Len(rs)

\* a run of a passed, a skipped and a timed-out record: passed 1, failed 2
C8_Witness ==
    \E i \in DOMAIN runs :
        LET rs == runs[i].results
        IN  /\ Len(rs) = 3
            /\ \E k \in DOMAIN rs : rs[k].status = "skipped"
            /\ \E k \in DOMAIN rs : rs[k].status = "timedOut"
            /\ runs[i].passed = 1
            /\ runs[i].failed = 2

AllParse(rs) == \A k \in DOMAIN rs : ~IsNaN(DateGetTime(rs[k].timestamp))

\* C9: in every group, duration is the sum of the records' durations and
\* wallClockTime is the latest end (timestamp + duration) minus the earliest
\* timestamp (NaN when a timestamp does not parse); durations 100, 150, 200
\* at 0 s, 1 s, 2 s give duration 450 and wallClockTime 2200.
C9_WallClockAndDuration ==
    \A i \in DOMAIN runs :
        LET rs == runs[i].results
            start(k) == DateGetTime(rs[k].timestamp)
            end(k) == DateGetTime(rs[k].timestamp) + rs[k].duration
        IN  /\ runs[i].duration = SumOfDurations(rs)
            /\ AllParse(rs) =>
                \E a, b \in DOMAIN rs :
                    /\ \A k \in DOMAIN rs : start(a) <= start(k) /\ end(k) <= end(b)
                    /\ runs[i].wallClockTime = end(b) - start(a)
            /\ ~AllParse(rs) => IsNaN(runs[i].wallClockTime)
            /\ ( /\ Len(rs) = 3
                 /\ \A k \in 1..3 : start(k) = 1000 * (k - 1)
                 /\ <<rs[1].duration, rs[2].duration, rs[3].duration>> = <<100, 150, 200>> )
               => runs[i].duration = 450 /\ runs[i].wallClockTime = 2200

\* scenario A
C9_Witness ==
    /\ Len(runs) = 1
    /\ runs[1].id = "RUN-1"
    /\ Len(runs[1].results) = 3
    /\ \A k \in 1..3 : DateGetTime(runs[1].results[k].timestamp) = 1000 * (k - 1)
    /\ runs[1].results[1].duration = 100
    /\ runs[1].results[2].duration = 150
    /\ runs[1].results[3].duration = 200
    /\ runs[1].duration = 450
    /\ runs[1].wallClockTime = 2200

\* C10: in every group whose timestamps all parse, wallClockTime is at least
\* the duration of each of its records.
C10_WallClockAtLeastEachDuration ==
    \A i \in DOMAIN runs :
        AllParse(runs[i].results) =>
            \A k \in DOMAIN runs[i].results :
                runs[i].wallClockTime >= runs[i].results[k].duration

\* three tests started together: the wall clock is the longest, not the sum
C10_Witness ==
    \E i \in DOMAIN runs :
        /\ Len(runs[i].results) = 3
        /\ AllParse(runs[i].results)
        /\ runs[i].wallClockTime = 200
        /\ runs[i].duration > 200

(***************************************************************************)
(* Properties of the execution modes and their metrics (under SpecMode and *)
(* SpecMetrics)                                                            *)
(***************************************************************************)
\* the mode the specification gives each of its six example tags
ExpectedMode(tag) ==
    CASE tag = StrParallelTests -> "parallel"
      [] tag = StrSequentialRun -> "sequential"
      [] tag = StrNpx -> "parallel"
      [] tag = StrTest -> "parallel"
      [] tag = StrEmpty -> "parallel"
      [] tag = StrUnknown -> "parallel"

\* C11: every group's executionMode is the mode of the tag of its first
\* record, whatever the tags of its other records, and is never 'unknown'.
C11_ModeFromFirstRecord ==
    \A i \in DOMAIN runs :
        /\ runs[i].executionMode = ExpectedMode(runs[i].results[1].executionMode)
        /\ runs[i].executionMode # "unknown"

\* a sequential group whose later record is tagged parallel, and a group of
\* an empty tag
C11_Witness ==
    /\ \E i \in DOMAIN runs :
           /\ Len(runs[i].results) = 2
           /\ runs[i].results[1].executionMode = StrSequentialRun
           /\ runs[i].results[2].executionMode = StrParallelTests
           /\ runs[i].executionMode = "sequential"
    /\ \E i \in DOMAIN runs :
           /\ runs[i].results[1].executionMode = StrEmpty
           /\ runs[i].executionMode = "parallel"

\* the groups the aggregator stored the mode on
GroupsOfMode(mode) == SelectSeq(runs, LAMBDA g : g.executionMode = mode)

\* C12: the parallel partition holds the groups stored as 'parallel' and the
\* sequential partition those stored as 'sequential': the runs and tests of
\* each partition are those of the groups of its mode, the runs of the two sum
\* to the number of groups and their tests to the number of records.
C12_PartitionsAgreeWithStoredMode ==
    /\ executionMetrics.parallel.totalRuns = Len(GroupsOfMode("parallel"))
    /\ executionMetrics.sequential.totalRuns = Len(GroupsOfMode("sequential"))
    /\ executionMetrics.parallel.totalTests = SumOfLengths(GroupsOfMode("parallel"))
    /\ executionMetrics.sequential.totalTests = SumOfLengths(GroupsOfMode("sequential"))
    /\ executionMetrics.parallel.totalRuns + executionMetrics.sequential.totalRuns
           = Len(runs)
    /\ executionMetrics.parallel.totalTests + executionMetrics.sequential.totalTests
           = Len(history)

\* a parallel group of two records, opened by an 'unknown' tag and followed by
\* a sequential one, beside a sequential group of one record
C12_Witness ==
    /\ Len(runs) = 2
    /\ \E i \in DOMAIN runs :
           /\ Len(runs[i].results) = 2
           /\ runs[i].results[1].executionMode = StrUnknown
           /\ runs[i].results[2].executionMode = StrSequentialRun
    /\ executionMetrics.parallel.totalRuns = 1
    /\ executionMetrics.parallel.totalTests = 2
    /\ executionMetrics.sequential.totalRuns = 1
    /\ executionMetrics.sequential.totalTests = 1

\* the records of the history whose group was stored with the mode
RecordsOfMode(mode) ==
    SelectSeq(history,
              LAMBDA r : \E i \in DOMAIN runs :
                             runs[i].id = KeyOf(r) /\ runs[i].executionMode = mode)

RECURSIVE SumOfFailed(_)
SumOfFailed(groups) ==
    IF groups = <<>> THEN 0 ELSE Head(groups).failed + SumOfFailed(Tail(groups))

\* q is p / t as a percentage rounded to the nearest integer, halves upwards
IsRoundedPercent(q, p, t) == 2 * q * t - t <= 200 * p /\ 200 * p < 2 * q * t + t

\* the three-way split of a partition over the records of its groups
ThreeWaySplit(m, mode) ==
    LET rs == RecordsOfMode(mode)
    IN  /\ m.totalTests = Len(rs)
        /\ m.passed = Cardinality({k \in DOMAIN rs : rs[k].status = "passed"})
        /\ m.skipped = Cardinality({k \in DOMAIN rs : rs[k].status = "skipped"})
        /\ m.failed = Cardinality({k \in DOMAIN rs :
                                       rs[k].status \notin {"passed", "skipped"}})
        /\ m.passed + m.failed + m.skipped = m.totalTests
        /\ m.totalTests > 0 => IsRoundedPercent(m.passRate, m.passed, m.totalTests)
        /\ m.failed + m.skipped = SumOfFailed(GroupsOfMode(mode))

\* C13: in each partition passed counts 'passed', skipped counts 'skipped' and
\* failed every other status, so passed + failed + skipped = totalTests;
\* passRate is passed / totalTests * 100 rounded; and failed + skipped is the
\* sum of the failed counts of the partition's groups.
C13_ThreeWaySplit ==
    /\ ThreeWaySplit(executionMetrics.parallel, "parallel")
    /\ ThreeWaySplit(executionMetrics.sequential, "sequential")

\* a sequential partition of a passed, a skipped and a timed-out record
C13_Witness ==
    /\ executionMetrics.sequential.totalTests = 3
    /\ executionMetrics.sequential.passed = 1
    /\ executionMetrics.sequential.skipped = 1
    /\ executionMetrics.sequential.failed = 1
    /\ executionMetrics.sequential.passRate = 33
    /\ \E k \in DOMAIN history : history[k].status = "timedOut"

AllZero(m) ==
    /\ m.totalRuns = 0
    /\ m.totalTests = 0
    /\ m.avgDuration = 0
    /\ m.avgRunTime = 0
    /\ m.passRate = 0
    /\ m.passed = 0
    /\ m.failed = 0
    /\ m.skipped = 0

\* C14: a partition without a group has all its metrics 0, and a report over
\* an empty record collection has no group, no browser statistics and all-zero
\* metrics in both partitions.
C14_EmptyYieldsZeros ==
    /\ GroupsOfMode("parallel") = <<>> => AllZero(executionMetrics.parallel)
    /\ GroupsOfMode("sequential") = <<>> => AllZero(executionMetrics.sequential)
    /\ reportLog = "generated" /\ history = <<>> =>
           /\ runs = <<>>
           /\ browserStats = <<>>
           /\ AllZero(executionMetrics.parallel)
           /\ AllZero(executionMetrics.sequential)

\* a report generated from a store that holds an empty array
C14_Witness ==
    /\ reportLog = "generated"
    /\ historyFile.exists
    /\ history = <<>>
    /\ runs = <<>>

\* a report with parallel groups and no sequential one
C14_WitnessEmptyPartition ==
    /\ reportLog = "generated"
    /\ executionMetrics.parallel.totalRuns > 0
    /\ GroupsOfMode("sequential") = <<>>

(***************************************************************************)
(* Properties of the recent window and its statistics (under SpecWindow)   *)
(***************************************************************************)
\* the last 100 records of the history, or all of them when there are fewer
LastHundred ==
    LET n == Len(history)
        m == IF n < 100 THEN n ELSE 100
    IN  [k \in 1..m |-> history[n - m + k]]

\* the browser a record counts for: its own, chromium when it names none
CountsFor(r) == IF r.browser = NoField THEN "chromium" ELSE r.browser

RECURSIVE SumOverDurations(_, _)
\* the sum of the durations of records, one distinct duration at a time
SumOverDurations(records, ds) ==
    IF ds = {} THEN 0
    ELSE LET d == CHOOSE x \in ds : TRUE
         IN  d * Cardinality({k \in DOMAIN records : records[k].duration = d})
             + SumOverDurations(records, ds \ {d})

DurationSum(records) ==
    SumOverDurations(records, {records[k].duration : k \in DOMAIN records})

\* q is a / b rounded to the nearest integer, halves upwards
IsRoundedQuotient(q, a, b) == 2 * q * b - b <= 2 * a /\ 2 * a < 2 * q * b + b

\* st is Math.round((p / t) * 100): the nearest integer, halves upwards, where
\* the double (23 / 40) * 100 = 57.49999999999999 rounds to 57
IsStability(st, p, t) ==
    IF p * 40 = 23 * t THEN st = 57 ELSE IsRoundedPercent(st, p, t)

C15_WitnessDoubleRounding ==
    \E i \in DOMAIN browserStats :
        /\ browserStats[i].passed = 23
        /\ browserStats[i].total = 40
        /\ browserStats[i].stability = 57

\* the positions of the history after which fewer than 100 records were appended
InWindow == {k \in DOMAIN history : Len(history) - k < 100}

\* C16: the global and the browser statistics count the records after which
\* fewer than 100 were appended, whatever their timestamps: total is the
\* smaller of the number of records and 100.
C16_LastHundredInAppendOrder ==
    /\ stats.total = IF Len(history) < 100 THEN Len(history) ELSE 100
    /\ stats.total = Cardinality(InWindow)
    /\ stats.passed = Cardinality({k \in InWindow : history[k].status = "passed"})
    /\ stats.skipped = Cardinality({k \in InWindow : history[k].status = "skipped"})
    /\ \A i \in DOMAIN browserStats :
           /\ browserStats[i].total =
                  Cardinality({k \in InWindow :
                                  CountsFor(history[k]) = browserStats[i].browser})
           /\ browserStats[i].passed =
                  Cardinality({k \in InWindow :
                                  /\ CountsFor(history[k]) = browserStats[i].browser
                                  /\ history[k].status = "passed"})
    /\ \A k \in InWindow :
           \E i \in DOMAIN browserStats : browserStats[i].browser = CountsFor(history[k])

\* 102 records: the first, passed and with the latest timestamp of all, has
\* left the window, and the two passed records are the last two appended
C16_Witness ==
    /\ Len(history) = 102
    /\ history[1].status = "passed"
    /\ \A k \in DOMAIN history :
           DateGetTime(history[k].timestamp) <= DateGetTime(history[1].timestamp)
    /\ history[101].status = "passed"
    /\ history[102].status = "passed"
    /\ stats.total = 100
    /\ stats.passed = 2
    /\ \E i \in DOMAIN browserStats :
           /\ browserStats[i].browser = "firefox"
           /\ browserStats[i].total = 98
           /\ browserStats[i].passed = 0

\* C17: in the global statistics of the window a skipped record is counted
\* as skipped and not as failed, so passed + failed + skipped is the total.
C17_SkippedNotAsFailed ==
    /\ stats.skipped = Cardinality({k \in InWindow : history[k].status = "skipped"})
    /\ stats.failed = Cardinality({k \in InWindow :
                                      history[k].status \notin {"passed", "skipped"}})
    /\ stats.passed + stats.failed + stats.skipped = stats.total

\* what the report computes instead: failed counts every record that did not
\* pass, the skipped ones included, which are then counted twice
C17_SkippedCountedTwice ==
    /\ stats.failed = Cardinality({k \in InWindow : history[k].status # "passed"})
    /\ stats.passed + stats.failed = stats.total
    /\ stats.passed + stats.failed + stats.skipped = stats.total + stats.skipped

\* a store of one skipped record: failed 1 and skipped 1 of a total of 1
C17_Witness ==
    /\ Len(history) = 1
    /\ history[1].status = "skipped"
    /\ stats.total = 1
    /\ stats.passed = 0
    /\ stats.failed = 1
    /\ stats.skipped = 1

(***************************************************************************)
(* Properties of the displayed run list (under SpecSort)                   *)
(***************************************************************************)
\* the time of a group's timestamp
TimeOf(g) == DateGetTime(g.timestamp)

\* the position at which the group's runId was first encountered
Encounter(g) == CHOOSE k \in DOMAIN runs : runs[k].id = g.id

\* the run list holds the groups, each once
IsListOfRuns ==
    /\ Len(sortedRuns) = Len(runs)
    /\ \A k \in DOMAIN runs : \E i \in DOMAIN sortedRuns : sortedRuns[i] = runs[k]

\* C18: the run list holds the groups latest timestamp first, and groups of
\* equal timestamps in the order their runIds were first encountered.
C18_SortedDescendingStable ==
    /\ IsListOfRuns
    /\ \A i, j \in DOMAIN sortedRuns :
           i < j /\ ~IsNaN(TimeOf(sortedRuns[i])) /\ ~IsNaN(TimeOf(sortedRuns[j])) =>
               \/ TimeOf(sortedRuns[i]) > TimeOf(sortedRuns[j])
               \/ /\ TimeOf(sortedRuns[i]) = TimeOf(sortedRuns[j])
                  /\ Encounter(sortedRuns[i]) < Encounter(sortedRuns[j])

\* what does hold: the order is as C18 states whenever every group's
\* timestamp parses
C18_SortedWhenAllParse ==
    (\A k \in DOMAIN runs : ~IsNaN(TimeOf(runs[k]))) => C18_SortedDescendingStable

\* three runs, the second with a timestamp that does not parse: the run list
\* is left in encounter order, the earliest run before the latest
C18_Witness ==
    /\ Len(runs) = 3
    /\ TimeOf(runs[1]) = 0
    /\ IsNaN(TimeOf(runs[2]))
    /\ TimeOf(runs[3]) = 1000
    /\ sortedRuns = runs

\* two runs of one timestamp after a later one, listed as encountered
C18_WitnessTie ==
    /\ Len(runs) = 3
    /\ TimeOf(runs[1]) = 0
    /\ TimeOf(runs[2]) = 0
    /\ TimeOf(runs[3]) = 1000
    /\ sortedRuns = <<runs[3], runs[1], runs[2]>>

(***************************************************************************)
(* Properties of the run times and the speedup (under SpecWallClock and    *)
(* SpecSpeedup)                                                            *)
(***************************************************************************)
\* the group has a record whose timestamp does not parse
HasBadTimestamp(g) ==
    \E k \in DOMAIN g.results : IsNaN(DateGetTime(g.results[k].timestamp))

\* the partition's metrics
MetricsOf(mode) ==
    IF mode = "parallel" THEN executionMetrics.parallel ELSE executionMetrics.sequential

\* C19: a group with a record whose timestamp does not parse has wallClockTime
\* NaN, and the avgRunTime of the partition that holds the group is NaN.
C19_NaNReachesAvgRunTime ==
    \A i \in DOMAIN runs :
        HasBadTimestamp(runs[i]) =>
            /\ IsNaN(runs[i].wallClockTime)
            /\ IsNaN(MetricsOf(runs[i].executionMode).avgRunTime)

\* a run of three records, the second with a timestamp that does not parse
C19_Witness ==
    /\ Len(runs) = 1
    /\ Len(runs[1].results) = 3
    /\ ~IsNaN(DateGetTime(runs[1].results[1].timestamp))
    /\ IsNaN(DateGetTime(runs[1].results[2].timestamp))
    /\ ~IsNaN(DateGetTime(runs[1].results[3].timestamp))
    /\ IsNaN(runs[1].wallClockTime)
    /\ IsNaN(executionMetrics.parallel.avgRunTime)
    /\ executionMetrics.parallel.totalRuns = 1

\* the figure is the quotient of the two average run times
ShowsQuotient ==
    /\ speedup.shown
    /\ speedup.sequential = executionMetrics.sequential.avgRunTime
    /\ speedup.parallel = executionMetrics.parallel.avgRunTime

\* the figure is never a division by zero
NeverDividesByZero == speedup.shown => speedup.parallel # 0

\* C20: the speedup is sequential.avgRunTime / parallel.avgRunTime when both
\* are nonzero and the placeholder when either is 0, and never a division by
\* zero.
C20_QuotientWhenBothNonzero ==
    /\ ( /\ executionMetrics.parallel.avgRunTime # 0
         /\ executionMetrics.sequential.avgRunTime # 0 ) => ShowsQuotient
    /\ ( \/ executionMetrics.parallel.avgRunTime = 0
         \/ executionMetrics.sequential.avgRunTime = 0 ) => speedup = NoSpeedup
    /\ NeverDividesByZero

\* a number greater than 0
IsPositive(x) == ~IsNaN(x) /\ x > 0

\* C20 as the report computes it: the speedup is the quotient when both
\* average run times are numbers greater than 0, and the placeholder when
\* either is 0 or NaN; it is never a division by zero.
C20_QuotientWhenBothPositive ==
    /\ ( /\ IsPositive(executionMetrics.parallel.avgRunTime)
         /\ IsPositive(executionMetrics.sequential.avgRunTime) ) => ShowsQuotient
    /\ ( \/ ~IsPositive(executionMetrics.parallel.avgRunTime)
         \/ ~IsPositive(executionMetrics.sequential.avgRunTime) ) => speedup = NoSpeedup
    /\ NeverDividesByZero
    /\ speedup.shown => IsPositive(speedup.parallel) /\ IsPositive(speedup.sequential)

\* both partitions with a run time: the quotient 100 / 100 is shown
C20_Witness ==
    /\ executionMetrics.parallel.avgRunTime = 100
    /\ executionMetrics.sequential.avgRunTime = 100
    /\ ShowsQuotient

\* a sequential run time of NaN beside a parallel one of 100: the placeholder
C20_WitnessNaN ==
    /\ executionMetrics.parallel.avgRunTime = 100
    /\ IsNaN(executionMetrics.sequential.avgRunTime)
    /\ speedup = NoSpeedup

\* a parallel run time of 0 beside a sequential one of 100: the placeholder
C20_WitnessZero ==
    /\ executionMetrics.parallel.totalRuns = 1
    /\ executionMetrics.parallel.avgRunTime = 0
    /\ executionMetrics.sequential.avgRunTime = 100
    /\ speedup = NoSpeedup

(***************************************************************************)
(* Properties of the history file and the report file (under SpecStore,    *)
(* SpecWindow and SpecWriters)                                             *)
(***************************************************************************)
\* C21: a report on an absent history file logs a warning, one on a history
\* file that does not parse logs the error, and both leave the report file as
\* it was; the report file changes only when the history file is there and
\* parses.
C21_NoReportWithoutReadableStore ==
    [][ /\ GenerateReport /\ ~historyFile.exists =>
               reportLog' = "warn" /\ reportFile' = reportFile
        /\ GenerateReport /\ historyFile.exists /\ ~historyFile.parses =>
               reportLog' = "error" /\ reportFile' = reportFile
        /\ reportFile' # reportFile => historyFile.exists /\ historyFile.parses ]_vars

\* an earlier report of two records is still there after a report that found
\* the history file unparseable
C21_Witness ==
    /\ reportLog = "error"
    /\ ~historyFile.parses
    /\ reportFile.exists
    /\ Len(reportFile.historyData) = 2

\* an earlier report of two records is still there after a report that found
\* no history file
C21_WitnessAbsent ==
    /\ reportLog = "warn"
    /\ ~historyFile.exists
    /\ reportFile.exists
    /\ Len(reportFile.historyData) = 2

\* no report file after a report that found no history file
C21_WitnessNoFile ==
    /\ reportLog = "warn"
    /\ ~reportFile.exists

\* the history file is there and holds an empty array
StoreIsEmpty ==
    historyFile.exists /\ historyFile.parses /\ historyFile.records = <<>>

\* C22: a report on a history file that holds an empty array writes no report
\* file and logs a warning, as one on an absent history file does.
C22_EmptyStoreNoReport ==
    [][GenerateReport /\ StoreIsEmpty =>
           reportLog' = "warn" /\ reportFile' = reportFile]_vars

\* C22 as the report does it: a report on a history file that holds an empty
\* array writes a report file without records, groups or current run and
\* logs that it was generated.
C22_EmptyStoreEmptyReport ==
    [][GenerateReport /\ StoreIsEmpty =>
           /\ reportLog' = "generated"
           /\ reportFile' = [exists |-> TRUE, historyData |-> <<>>, runGroups |-> <<>>,
                             currentRun |-> ""]]_vars

\* the report written from an empty array
C22_Witness ==
    /\ StoreIsEmpty
    /\ reportLog = "generated"
    /\ reportFile.exists
    /\ reportFile.historyData = <<>>
    /\ reportFile.currentRun = ""

\* the history file is there and its content does not parse
StoreIsUnreadable == historyFile.exists /\ ~historyFile.parses

\* C23: an append to a history file that does not parse goes through: the
\* history is taken as empty, and the file then parses and holds the new
\* record alone.
C23_AppendWinsOverCorruption ==
    [][\A record \in StoreRecords :
           AppendToHistory(record) /\ StoreIsUnreadable =>
               /\ historyFile' = [exists |-> TRUE, parses |-> TRUE,
                                  records |-> <<record>>]
               /\ reporterLog' = "read-error"]_vars

\* a report had shown two records; the file was damaged, and the append that
\* followed left one record
C23_Witness ==
    /\ Len(history) = 2
    /\ reporterLog = "read-error"
    /\ historyFile.parses
    /\ Len(historyFile.records) = 1

\* C24: with one reporter and a history file that parses, every change of the
\* file adds one record after the records it held, which stay as they were
\* and in their order.
C24_AppendOnly ==
    [][historyFile' # historyFile =>
           /\ historyFile'.exists
           /\ historyFile'.parses
           /\ Len(historyFile'.records) = Len(historyFile.records) + 1
           /\ \A k \in DOMAIN historyFile.records :
                  historyFile'.records[k] = historyFile.records[k]
           /\ historyFile'.records[Len(historyFile'.records)] \in WindowRecords]_vars

\* a store of ten records after three appends: the ten, then the three in the
\* order of the calls
C24_Witness ==
    /\ preloaded = 10
    /\ Len(historyFile.records) = 13
    /\ \A k \in 1..8 : historyFile.records[k] = FirstKind
    /\ \A k \in 9..10 : historyFile.records[k] = SecondKind
    /\ historyFile.records[11].status = "passed"
    /\ historyFile.records[12].status = "skipped"
    /\ historyFile.records[13].browser = "webkit"

\* the records of process p that the history file holds
InStore(p) ==
    Cardinality({k \in DOMAIN historyFile.records :
                    historyFile.records[k].runId = RunIdOf(p)})

\* a record whose append has returned is not in the history file
RecordLost == \E p \in Writers : InStore(p) < completed[p]

\* C25: a record whose append has returned can be missing from the history
\* file only when two processes have appended; a write by a process whose read
\* is still what the file holds adds its record to the file, and a write by a
\* process whose read is stale puts back what it read, with its record.
C25_LostOnlyWhenInterleaved ==
    /\ [](RecordLost => \A p \in Writers : completed[p] > 0)
    /\ [][\A p \in Writers :
             WriterWrite(p) =>
                 /\ historyFile'.records = Append(writers[p].read, writers[p].pending[1])
                 /\ writers[p].read = ReadHistory(historyFile) =>
                        historyFile'.records
                            = Append(historyFile.records, writers[p].pending[1])]_vars

\* both processes read the empty store before either wrote: both appends
\* have returned and the file holds the record of one of them
C25_Witness ==
    /\ completed = [p \in Writers |-> 1]
    /\ \A p \in Writers : writers[p].pc = "idle"
    /\ Len(historyFile.records) = 1
    /\ RecordLost

\* one process appending three times: nothing is lost
C25_WitnessSingleWriter ==
    /\ completed[1] = 3
    /\ completed[2] = 0
    /\ InStore(1) = 3

(***************************************************************************)
(* Properties of the evidence explorer and of the recorded steps (under    *)
(* SpecExplorer)                                                           *)
(***************************************************************************)
\* the results of the run the explorer is on
RunResults == CurrentRun(page)[1].results

\* the results of the current run whose cards are displayed
DisplayedResults ==
    {page.tcList[k].from : k \in {j \in DOMAIN page.tcList : page.tcList[j].display}}

\* the results of the current run that pass both filters
PassBothFilters ==
    {k \in DOMAIN RunResults :
        /\ page.currentFilter = "all" \/ RunResults[k].status = page.currentFilter
        /\ Includes(ToLowerCase(CardText(RunResults[k])), ToLowerCase(page.testSearch))}

\* C26: in the open explorer the displayed cards are exactly the results of
\* the current run whose status passes the status filter and whose card text
\* contains the search text, whatever the case of the letters
C26_FiltersIntersected ==
    page.open /\ CurrentRun(page) # <<>> => DisplayedResults = PassBothFilters

\* C26: a card is displayed whose text does not contain the text of the
\* search box
C26_Witness ==
    /\ page.open
    /\ page.testSearch # <<>>
    /\ \E k \in DOMAIN page.tcList :
          /\ page.tcList[k].display
          /\ ~Includes(ToLowerCase(page.tcList[k].text), ToLowerCase(page.testSearch))

\* what the explorer does keep: a displayed card passes the status filter,
\* and a result that passes both filters is displayed
C26_StatusFilterKept ==
    page.open /\ CurrentRun(page) # <<>> =>
        /\ PassBothFilters \subseteq DisplayedResults
        /\ \A k \in DisplayedResults :
              page.currentFilter = "all" \/ RunResults[k].status = page.currentFilter

\* the step the explorer has selected, and the result it belongs to
SelectedStep == page.selected[1].step
SelectedResult == page.selected[1].result

C27_WitnessTestError ==
    /\ page.open
    /\ page.selected # <<>>
    /\ SelectedStep.status = "failed"
    /\ SelectedStep.error = <<>>
    /\ page.errorPanel = <<"crash">>

\* C27: a passed step of a test that carries an error leaves the panel empty
C27_WitnessPassedStep ==
    /\ page.open
    /\ page.selected # <<>>
    /\ SelectedStep.status = "passed"
    /\ SelectedResult.error # <<>>
    /\ page.errorPanel = <<>>

\* C29: after a click on a card the pane shows the name, the metadata and the
\* steps of the result the card was rendered from
C29_ClickedCardShown ==
    page.open /\ page.clicked # 0 =>
        page.pane = Pane(RunResults[page.clicked], RunResults[page.clicked].testId,
                         BrowserOrDefault(RunResults[page.clicked]))

\* C29: a card was clicked, and the pane shows another result of the run
C29_Witness ==
    /\ page.open
    /\ page.clicked # 0
    /\ \E k \in DOMAIN RunResults :
          /\ k # page.clicked
          /\ RunResults[k].testId = RunResults[page.clicked].testId
          /\ page.pane.tcMeta.status = RunResults[k].status
          /\ page.pane.tcMeta.status # RunResults[page.clicked].status

\* what the explorer does show: the first result of the run with the
\* identifier and the browser of the clicked card
C29_FirstOfItsNameShown ==
    page.open /\ page.clicked # 0 =>
        LET r == RunResults[page.clicked]
            first == FindResult(RunResults, r.testId, BrowserOrDefault(r))
        IN  page.pane = Pane(RunResults[first], r.testId, BrowserOrDefault(r))

\* the steps of a Playwright result that are recorded
TestSteps(result) == SelectSeq(result.steps, LAMBDA st : st.category = "test.step")

\* the image of a step: the first image among its attachments if that has a
\* path, else the one of the first sub-step that has such an image
FirstImage(attachments, steps) ==
    LET Images(as) == SelectSeq(as, LAMBDA a : a.image)
        HasImage(as) == Images(as) # <<>> /\ Images(as)[1].path # <<>>
        below == SelectSeq(steps, LAMBDA sub : HasImage(sub.attachments))
    IN  IF HasImage(attachments) THEN <<Images(attachments)[1]>>
        ELSE IF below # <<>> THEN <<Images(below[1].attachments)[1]>>
        ELSE <<>>

\* the record the reporter has just appended
LastRecorded == historyFile'.records[Len(historyFile'.records)]

\* the images of the recorded steps of a test that has just ended
RecordedImages(end) ==
    IF Len(TestSteps(end.result)) > 0
    THEN [k \in DOMAIN TestSteps(end.result) |->
             FirstImage(TestSteps(end.result)[k].attachments,
                        TestSteps(end.result)[k].steps)]
    ELSE IF FirstImage(end.result.attachments, <<>>) # <<>>
    THEN <<FirstImage(end.result.attachments, <<>>)>>
    ELSE <<>>

UnarchivedPath == <<"test-results", "shot.png">>

C28_WitnessNoImage ==
    /\ page.open
    /\ page.selected # <<>>
    /\ SelectedStep.screenshot = <<>>
    /\ page.timers = <<>>
    /\ page.mainImg = NoScreenshotPlaceholder

(***************************************************************************)
(* Properties of withRetry (under SpecRetry)                               *)
(***************************************************************************)
\* the invocations of the action that rejected, of the call under way
Rejections == SelectSeq(retry.attempts, LAMBDA a : a = "rejected")

\* C30: a call of withRetry invokes the action at most maxRetries times and
\* ends once the action has settled often enough; it returns at the first
\* invocation that resolves, with its value; it waits delay ms after every
\* failed attempt but the last possible one; and it throws only after exactly
\* maxRetries invocations that all rejected, with the message of the last
C30_RetryBounded ==
    /\ [](retry.pc # "idle" =>
            /\ Len(retry.attempts) <= retry.maxRetries
            /\ \A k \in DOMAIN retry.attempts :
                  retry.attempts[k] = "resolved" =>
                      k = Len(retry.attempts) /\ retry.pc = "returned"
            /\ \A k \in DOMAIN retry.waited : retry.waited[k] = retry.delay
            /\ retry.pc = "action" =>
                  Len(retry.waited) = Len(retry.attempts)
            /\ retry.pc = "delay" =>
                  /\ Len(retry.waited) = Len(retry.attempts) - 1
                  /\ Len(retry.attempts) < retry.maxRetries
            /\ retry.pc = "returned" =>
                  /\ retry.ended = <<"value">>
                  /\ Len(retry.waited) = Len(retry.attempts) - 1
            /\ retry.pc = "thrown" =>
                  /\ Rejections = retry.attempts
                  /\ Len(retry.attempts) = retry.maxRetries
                  /\ retry.maxRetries > 0 =>
                        /\ Len(retry.waited) = retry.maxRetries - 1
                        /\ retry.ended = <<[attempts |-> retry.maxRetries,
                                            last |-> retry.lastError[1]]>>)
    /\ (retry.pc # "idle") ~> (retry.pc \in {"returned", "thrown"})

\* C30: a call with maxRetries 2 has thrown after two failures and one delay,
\* with the message of the second failure
C30_Witness ==
    /\ retry.pc = "thrown"
    /\ retry.maxRetries = 2
    /\ retry.attempts = <<"rejected", "rejected">>
    /\ retry.waited = <<50>>
    /\ retry.ended = <<[attempts |-> 2, last |-> "second"]>>

\* C30: a call with the default options has returned at its third attempt
C30_WitnessReturned ==
    /\ retry.pc = "returned"
    /\ retry.maxRetries = DefaultMaxRetries
    /\ retry.attempts = <<"rejected", "rejected", "resolved">>
    /\ retry.waited = <<DefaultDelay, DefaultDelay>>

=============================================================================
